---- MODULE Spec2Model ----
(***************************************************************************)
(* Model of @lcdev/ws-rpc (src/src/index.ts): the client call proxy and    *)
(* its pending-call table, the client and server message handlers, the     *)
(* server self-call proxy and the transport states they observe.           *)
(*                                                                         *)
(* Time is a discrete tick.  A tick passes only when nothing else is ready *)
(* to run (no message in flight, no continuation waiting, no due timer or  *)
(* handler), so a timer of n ticks and a handler of m ticks race fairly    *)
(* when n = m and are ordered by their lengths otherwise.                  *)
(***************************************************************************)
EXTENDS Integers, Sequences, FiniteSets, TLC

(* ------------------------------ bounds -------------------------------- *)
\* calls issued in one behaviour (client calls and server self-calls)
MaxCalls == 2
\* timeoutMS is drawn from 1..MaxTimeout ticks
MaxTimeout == 3
\* ticks the slow handler takes (the test's delay(100))
SlowDuration == 2
\* how often the transport of one client may drop and re-open
MaxReconnects == 1
\* how many subscription calls (on, once, off) are made
MaxSubs == 3
\* how many times connect is called
MaxConnects == 2
\* how many times close() is called, over all endpoints
MaxCloses == 3
\* how many times server.ping() is called
MaxPings == 2
\* how many messages are sent by a peer that is not this library
MaxCrafted == 2

Clients == {"c1", "c2"}

(* ------------------------------ errors.ts ----------------------------- *)
Timeout == 2
ConnectionNotOpen == 3
BuildError == 1
Response == 4
Unknown == -1
\* an absent (undefined) error code
NoCode == 0

(* ------------------------------ values -------------------------------- *)
\* the JavaScript value undefined, as a payload
Undefined == "undefined"
\* request payloads; the registered validator refuses "bad"
Payloads == {"ok", "bad"}

\* a message of an Error: its text with the function name and bound it cites
Msg(text, fn, ms) == [text |-> text, fn |-> fn, ms |-> ms]

\* new RpcError(message, code) and other Error objects
Error(message, code, data) ==
  [kind |-> "error", message |-> message, code |-> code, data |-> data]

\* states of a promise
Pending == [st |-> "pending", val |-> [kind |-> "none"]]
Resolved(v) == [st |-> "resolved", val |-> [kind |-> "value", v |-> v]]
Rejected(e) == [st |-> "rejected", val |-> e]

(* ------------------------- the builder's input ------------------------ *)
\* handlers passed to server(handlers): the registered function names, a
\* handler for the reserved name ping among them
Handlers == {"echo", "slow", "checked", "fail", "thrower", "ping"}
\* names a client may call: registered ones, an unregistered one, the builtin
FunctionNames == Handlers \cup {"nofn", "ping"}
\* functionValidation: names registered with func(name, validation)
functionValidation == {"checked", "ping"}
\* event names, and eventValidation: those registered with event(name, validation)
EventNames == {"news", "strict"}
eventValidation == {"strict"}

\* the registered validator: an Error for a payload it refuses, else false
ValidationError == Error(Msg("Validation Error", "", 0), NoCode, Undefined)
\* (ValidatorAccepts: a validator that refuses nothing, which C19 rules out)
ValidatorAccepts(data) == FALSE
ValidatorRefuses(data) == data = "bad"

\* how a handler ends: "returns" (resolves), "rejects" (an async function
\* that throws, or a rejected promise) or "throws" (synchronously, before
\* it has returned a promise)
HandlerKind(fn) ==
  CASE fn = "fail" -> "rejects"
    [] fn = "thrower" -> "throws"
    [] OTHER -> "returns"
HandlerDuration(fn) == IF fn = "slow" THEN SlowDuration ELSE 0
HandlerValue(fn, data) == IF fn = "slow" THEN Undefined ELSE data
HandlerError(fn) == Error(Msg("handler failed", "", 0), 7, Undefined)

(* --------------------------- serialization ---------------------------- *)
\* JSON.stringify leaves out the properties whose value is undefined
Absent(env) ==
  {f \in DOMAIN env \cap {"data"} : env.data = Undefined}
    \cup {f \in DOMAIN env \cap {"code"} : env.code = NoCode}
serialize(env) == [json |-> [f \in DOMAIN env \ Absent(env) |-> env[f]]]
deserialize(msg) == msg.json
\* a decoded value that is not an object (a string, a number, null)
NonObject(v) == [primitive |-> v]
\* typeof parsed === 'object' && parsed !== null
IsObject(parsed) == "primitive" \notin DOMAIN parsed
\* the control messages 'ping' and 'pong', sent as they are
PingFrame == [raw |-> "ping"]
PongFrame == [raw |-> "pong"]
\* reading a property of a parsed object: undefined when it is absent
DataOf(parsed) == IF "data" \in DOMAIN parsed THEN parsed.data ELSE Undefined
CodeOf(parsed) == IF "code" \in DOMAIN parsed THEN parsed.code ELSE NoCode

\* a subscription call (op on, once, offcb, off) or a run of dispatch with
\* the handlers of the name it found (before), the callbacks invoked in
\* order (ran) and whether dispatch threw
Entry(op, name, cb, before, ran, threw) ==
  [op |-> op, name |-> name, cb |-> cb, before |-> before, ran |-> ran, threw |-> threw]
NoEntry == Entry("none", "", "", <<>>, <<>>, FALSE)
Range(seq) == {seq[i] : i \in DOMAIN seq}

\* a run of the close or error listener of setupConnectionEventHandling: the
\* callbacks registered when it ran (before), those invoked in order (ran),
\* whether an exception left the listener, and the argument they were given
\* (none for close)
Notice(before, ran, threw, arg) ==
  [before |-> before, ran |-> ran, threw |-> threw, with |-> arg]
NoArgument == [kind |-> "none"]
NoNotice == Notice(<<>>, <<>>, FALSE, NoArgument)
\* the Sets onClose and onError of an endpoint, empty, and its last runs
NoHooks == [onClose |-> <<>>, onError |-> <<>>, close |-> NoNotice, error |-> NoNotice]

(* ------------------------------- build -------------------------------- *)
\* names and validators given to func(name, validation) and event(name,
\* validation); either argument may be left out
NoArgumentGiven == "undefined"
BuilderNames == {"add", "sub", "toString"}
Validators == {"v1", "v2"}
\* the names every object inherits a property for from Object.prototype
ObjectPrototype == {"toString"}

\* buildInner(functionValidation, eventValidation): a builder, with the call
\* that made it or was refused by it (last)
Builder(functions, events, last) ==
  [functionValidation |-> functions, eventValidation |-> events, last |-> last]
BuilderCall(op, name, validation, threw) ==
  [op |-> op, name |-> name, validation |-> validation, threw |-> threw]
\* build(serializer): buildInner({}, {})
NoValidators == [name \in {} |-> "v1"]
NewBuilder ==
  Builder(NoValidators, NoValidators, BuilderCall("build", NoArgumentGiven, NoArgumentGiven, 0))

\* `validations[name]` is truthy: the name has a validator, or the plain
\* object inherits a property of that name
Truthy(validations, name) == name \in DOMAIN validations \/ name \in ObjectPrototype

\* what func and event do with their validators object: [threw] is the code
\* of the RpcError thrown (0 for none), [to] the object of the builder that
\* the application goes on with
\* (RegisterOverwriting: the variant that replaces an existing validator,
\* which C30 rules out)
RegisterOverwriting(validations, name, validation) ==
  IF name = NoArgumentGiven \/ validation = NoArgumentGiven
    THEN [threw |-> 0, to |-> validations]
    ELSE [threw |-> 0,
          to |-> [n \in DOMAIN validations \cup {name} |->
                    IF n = name THEN validation ELSE validations[n]]]
Register(validations, name, validation) ==
  IF name = NoArgumentGiven \/ validation = NoArgumentGiven
    THEN [threw |-> 0, to |-> validations]
  ELSE IF Truthy(validations, name)
    THEN [threw |-> BuildError, to |-> validations]
    ELSE [threw |-> 0,
          to |-> [n \in DOMAIN validations \cup {name} |->
                    IF n = name THEN validation ELSE validations[n]]]

(* ------------------------------- state -------------------------------- *)
VARIABLES
  clientValidate,      \* shouldValidate of client(shouldValidate)
  serverValidate,      \* shouldValidate of server(handlers, shouldValidate)
  readyState,          \* conn.readyState of each client transport
  epoch,               \* how many times each transport has re-opened
  waitingForResponse,  \* per client: mid -> the call whose promise it settles
  calls,               \* every call issued: its promise, timer and position
  toServer,            \* per client: messages in flight to the server
  toClient,            \* per client: messages in flight to the client
  activeConnections,   \* the server's set of connected sockets
  isClosed,            \* the server's isClosed flag
  requests,            \* every function request the server has received
  unhandled,           \* message-handler runs that ended in a rejection
  userClosed,          \* the clients whose close() has been called
  eventHandlers,       \* per endpoint: event name -> its Set of callbacks
  marked,              \* the callbacks that carry the property once: true
  log,                 \* per endpoint: what its event handling did last
  connects,            \* every connect(transport) call: its promise
  inner,               \* the listener the server wraps: none, listening or closed
  closes,              \* per endpoint: every close() call and its outcome
  pings,               \* every server.ping() probe: its wait set, timer and promise
  crafted,             \* the messages peers that are not this library have sent
  listeners,           \* per client: message listeners bound, and run on the first message
  lifecycle,           \* per endpoint: onClose and onError callbacks, and the last notifications
  builder              \* the builder an application chains func and event calls on, and its last call

vars == <<clientValidate, serverValidate, readyState, epoch, waitingForResponse,
          calls, toServer, toClient, activeConnections, isClosed, requests,
          unhandled, userClosed, eventHandlers, marked, log, connects,
          inner, closes, pings, crafted, listeners, lifecycle,
          builder>>

\* the endpoints: every client connection and the server
Endpoints == Clients \cup {"server"}

\* a server-side socket: the client it belongs to and the transport's epoch
Sock(c) == <<c, epoch[c]>>

Init ==
  /\ clientValidate \in BOOLEAN
  /\ serverValidate \in BOOLEAN
  /\ readyState = [c \in Clients |-> 1]
  /\ epoch = [c \in Clients |-> 0]
  /\ waitingForResponse = [c \in Clients |-> <<>>]
  /\ calls = <<>>
  /\ toServer = [c \in Clients |-> <<>>]
  /\ toClient = [c \in Clients |-> <<>>]
  /\ activeConnections = {<<c, 0>> : c \in Clients}
  /\ isClosed = FALSE
  /\ requests = <<>>
  /\ unhandled = {}
  /\ userClosed = {}
  /\ eventHandlers = [e \in Endpoints |-> [name \in EventNames |-> <<>>]]
  /\ marked = {}
  /\ log = [e \in Endpoints |-> [last |-> NoEntry, subs |-> 0, oneShot |-> <<>>]]
  /\ connects = <<>>
  /\ inner = "none"
  /\ closes = [e \in Endpoints |-> <<>>]
  /\ pings = <<>>
  /\ crafted = <<>>
  /\ listeners = [c \in Clients |-> [bound |-> 1, ran |-> 0]]
  /\ lifecycle = [e \in Endpoints |-> NoHooks]
  /\ builder = NewBuilder

(* -------------------------- setupEventHandling ------------------------- *)
\* the callbacks an application subscribes: "g" throws when it is invoked
Callbacks == {"f", "g"}
CallbackThrows(cb) == cb = "g"

\* a Set of callbacks, in insertion order: add, delete and clear
\* (SetAddAgain: the variant that stores a callback once per add, which C16
\* rules out)
SetAddAgain(set, cb) == Append(set, cb)
SetAdd(set, cb) ==
  IF \E i \in DOMAIN set : set[i] = cb THEN set ELSE Append(set, cb)
\* (SetDeleteAll: the variant that drops every callback, which C15 rules out)
SetDeleteAll(set, cb) == <<>>
SetDelete(set, cb) == SelectSeq(set, LAMBDA x : x # cb)
\* (SetKeep: the variant that clears nothing, which C14 rules out)
SetKeep(set) == set
SetClear(set) == <<>>

\* for (const handler of handlers) try { handler(data) } catch { log }: the
\* callbacks invoked, and whether an exception left the loop
\* (InvokeUncaught: the loop without the try/catch, which C17 rules out)
InvokeUncaught(handlers) ==
  LET first == CHOOSE i \in 1..(Len(handlers) + 1) :
                 /\ i = Len(handlers) + 1 \/ CallbackThrows(handlers[i])
                 /\ \A j \in 1..(i - 1) : ~CallbackThrows(handlers[j])
  IN IF first > Len(handlers)
       THEN [ran |-> handlers, threw |-> FALSE]
       ELSE [ran |-> SubSeq(handlers, 1, first), threw |-> TRUE]
Invoke(handlers) ==
  LET F[i \in 0..Len(handlers)] ==
        IF i = 0 THEN <<>> ELSE Append(F[i - 1], handlers[i])
  IN [ran |-> F[Len(handlers)], threw |-> FALSE]

\* the history kept of endpoint e after `entry`: the last entry, the number
\* of subscription calls, and for every subscription made with once and not
\* removed since (oneShot) the number of events it has been invoked for
Logged(e, entry, shots) ==
  [log EXCEPT ![e] = [last |-> entry,
                      subs |-> IF entry.op = "dispatch" THEN @.subs ELSE @.subs + 1,
                      oneShot |-> shots]]
Without(shots, gone) == [sub \in DOMAIN shots \ gone |-> shots[sub]]
Fired(shots, entry) ==
  [sub \in DOMAIN shots |->
     IF sub[1] = entry.name /\ sub[2] \in Range(entry.ran) THEN shots[sub] + 1
     ELSE shots[sub]]

\* the subscription calls made so far, over all endpoints
Subscriptions ==
  LET F[S \in SUBSET Endpoints] ==
        IF S = {} THEN 0
        ELSE LET e == CHOOSE x \in S : TRUE IN log[e].subs + F[S \ {e}]
  IN F[Endpoints]

(* ---------------------- setupConnectionEventHandling ------------------- *)
\* what a transport hands to its error listeners: an Error, an error event
\* that carries one, or a bare string
TransportErrors ==
  {[kind |-> "error", message |-> Msg("socket hang up", "", 0), code |-> NoCode,
    data |-> Undefined],
   [kind |-> "event", error |-> [kind |-> "error", message |-> Msg("socket hang up", "", 0),
                                 code |-> NoCode, data |-> Undefined]],
   [kind |-> "string", text |-> "reset"]}

\* normalizeError(error): an Error is kept, the Error of an error event is
\* taken out, anything else becomes an RpcError with code Unknown
normalizeError(error) ==
  IF error.kind = "error" THEN error
  ELSE IF error.kind = "event" /\ error.error.kind = "error" THEN error.error
  ELSE Error(Msg("Unknown error", "", 0), Unknown, Undefined)

\* for (const callback of onClose) callback(): the loop has no try/catch, an
\* exception of a callback leaves the listener
NotifyAll(callbacks) == InvokeUncaught(callbacks)

\* one run of a listener over `callbacks`; with none, nothing is handed out
Noticed(callbacks, arg) ==
  IF callbacks = <<>> THEN NoNotice
  ELSE Notice(callbacks, NotifyAll(callbacks).ran, NotifyAll(callbacks).threw, arg)

\* the listener of `event` ("close" or "error") of endpoint e runs with `arg`
Notify(e, event, arg) ==
  LET callbacks == IF event = "close" THEN lifecycle[e].onClose ELSE lifecycle[e].onError
  IN /\ lifecycle' = [lifecycle EXCEPT ![e][event] = Noticed(callbacks, arg)]
     /\ unhandled' = IF NotifyAll(callbacks).threw
                       THEN unhandled \cup {<<e, event>>} ELSE unhandled

\* what registering and cancelling lifecycle callbacks leaves alone
LifecycleFrame ==
  UNCHANGED <<inner, closes, pings, crafted, listeners, builder,
              eventHandlers, marked, log, connects,
              clientValidate, serverValidate, readyState, epoch, waitingForResponse,
              calls, toServer, toClient, activeConnections, isClosed, requests,
              unhandled, userClosed>>

\* onClose(cb) and onError(cb)
OnClose(e, cb) ==
  /\ lifecycle' = [lifecycle EXCEPT ![e].onClose = SetAdd(@, cb)]
  /\ LifecycleFrame
OnError(e, cb) ==
  /\ lifecycle' = [lifecycle EXCEPT ![e].onError = SetAdd(@, cb)]
  /\ LifecycleFrame

\* the tokens they return, called for a callback that is registered
CancelOnClose(e, cb) ==
  /\ cb \in Range(lifecycle[e].onClose)
  /\ lifecycle' = [lifecycle EXCEPT ![e].onClose = SetDelete(@, cb)]
  /\ LifecycleFrame
CancelOnError(e, cb) ==
  /\ cb \in Range(lifecycle[e].onError)
  /\ lifecycle' = [lifecycle EXCEPT ![e].onError = SetDelete(@, cb)]
  /\ LifecycleFrame

\* the transport of endpoint e emits error
EmitError(e, error) ==
  /\ Notify(e, "error", normalizeError(error))
  /\ UNCHANGED <<inner, closes, pings, crafted, listeners, builder,
                 eventHandlers, marked, log, connects,
                 clientValidate, serverValidate, readyState, epoch, waitingForResponse,
                 calls, toServer, toClient, activeConnections, isClosed, requests,
                 userClosed>>

(* --------------------------- builder calls ----------------------------- *)
\* what func and event leave alone
BuilderFrame ==
  UNCHANGED <<inner, closes, pings, crafted, listeners, lifecycle,
              eventHandlers, marked, log, connects,
              clientValidate, serverValidate, readyState, epoch, waitingForResponse,
              calls, toServer, toClient, activeConnections, isClosed, requests,
              unhandled, userClosed>>

\* builder = builder.func(name, validation): a throw leaves the variable as
\* it was
Func(name, validation) ==
  /\ builder' = Builder(Register(builder.functionValidation, name, validation).to,
                        builder.eventValidation,
                        BuilderCall("func", name, validation,
                                    Register(builder.functionValidation, name, validation).threw))
  /\ BuilderFrame

\* builder = builder.event(name, validation)
Event(name, validation) ==
  /\ builder' = Builder(builder.functionValidation,
                        Register(builder.eventValidation, name, validation).to,
                        BuilderCall("event", name, validation,
                                    Register(builder.eventValidation, name, validation).threw))
  /\ BuilderFrame

(* ------------------------- subscription frame -------------------------- *)
\* what every subscription call leaves alone
SubscriptionFrame ==
  UNCHANGED <<inner, closes, pings, crafted, listeners, lifecycle, builder,
              clientValidate, serverValidate, readyState, epoch, waitingForResponse,
              calls, toServer, toClient, activeConnections, isClosed, requests,
              unhandled, userClosed, connects>>

\* on(name, callback)
On(e, name, cb) ==
  /\ Subscriptions < MaxSubs
  /\ eventHandlers' = [eventHandlers EXCEPT ![e][name] = SetAdd(@, cb)]
  /\ log' = Logged(e, Entry("on", name, cb, eventHandlers[e][name], <<>>, FALSE), log[e].oneShot)
  /\ UNCHANGED marked
  /\ SubscriptionFrame

\* once(name, callback): on(name, Object.assign(callback, { once: true }))
Once(e, name, cb) ==
  /\ Subscriptions < MaxSubs
  /\ marked' = marked \cup {cb}
  /\ eventHandlers' = [eventHandlers EXCEPT ![e][name] = SetAdd(@, cb)]
  /\ log' = Logged(e, Entry("once", name, cb, eventHandlers[e][name], <<>>, FALSE),
                   (<<name, cb>> :> 0) @@ log[e].oneShot)
  /\ SubscriptionFrame

\* off(name, callback), called directly or through the token that on and
\* once return, which is () => off(name, callback)
Off(e, name, cb) ==
  /\ Subscriptions < MaxSubs
  /\ eventHandlers' = [eventHandlers EXCEPT ![e][name] = SetDelete(@, cb)]
  /\ log' = Logged(e, Entry("offcb", name, cb, eventHandlers[e][name], <<>>, FALSE),
                   Without(log[e].oneShot, {<<name, cb>>}))
  /\ UNCHANGED marked
  /\ SubscriptionFrame

\* off(name)
OffAll(e, name) ==
  /\ Subscriptions < MaxSubs
  /\ eventHandlers' = [eventHandlers EXCEPT ![e][name] = SetClear(@)]
  /\ log' = Logged(e, Entry("off", name, "", eventHandlers[e][name], <<>>, FALSE),
                   Without(log[e].oneShot, {sub \in DOMAIN log[e].oneShot : sub[1] = name}))
  /\ UNCHANGED marked
  /\ SubscriptionFrame

(* ----------------------- setupClient: operations ---------------------- *)
\* a call made before nanoid() ran, and a sendEvent, carry no mid
NoMid == <<"mid", 0>>
\* nanoid(): an id no earlier call of this client carries
nanoid(c) ==
  <<"mid", Cardinality({k \in DOMAIN calls : calls[k].who = c /\ calls[k].mid # NoMid}) + 1>>

\* assertConnectionOpen: it returns when readyState is 1 and throws otherwise
\* (assertConnectionOpenOrConnecting: the variant that lets a connecting
\* transport through, which C10 rules out)
assertConnectionOpenOrConnecting(c) == readyState[c] \in {0, 1}
assertConnectionOpen(c) == readyState[c] = 1
NotOpenError(state) ==
  Error(Msg(CASE state = 0 -> "CONNECTING" [] state = 2 -> "CLOSING" [] OTHER -> "CLOSED",
            "", 0),
        ConnectionNotOpen, Undefined)

\* the Timeout error of a call
TimeoutError(fn, ms) == Error(Msg("timed out", fn, ms), Timeout, Undefined)

\* one run of an async operation (op "call" or "event"): its position (pc),
\* the `response` promise (inner), the timer of createTimeout and the
\* returned promise (outcome); work is the remaining time of a handler the
\* server runs for itself; failed are the connections whose send threw in
\* a broadcast
Call(who, op, name, data, ms, mid, pc, outcome) ==
  [who |-> who, op |-> op, fn |-> name, data |-> data, ms |-> ms, mid |-> mid,
   pc |-> pc, inner |-> Pending, timer |-> "none", left |-> 0, work |-> -1,
   failed |-> {}, outcome |-> outcome]

\* Promise.race(...).finally(clearTimeout): the first settlement wins and
\* cancels the timer; a promise that has settled never changes again
\* (SettleAgain: the variant in which a later settlement overwrites an
\* earlier one, which C1 rules out)
\* (SettleKeepingTimer: the variant without .finally(clearTimeout), which
\* C32 rules out)
SettleKeepingTimer(call, result) ==
  IF call.outcome.st = "pending" /\ call.pc = "racing"
    THEN [call EXCEPT !.outcome = result, !.pc = "done"]
    ELSE call
SettleAgain(call, result) ==
  IF call.pc \in {"racing", "done"}
    THEN [call EXCEPT !.outcome = result, !.pc = "done",
                      !.timer = IF @ = "armed" THEN "cleared" ELSE @]
    ELSE call
Settle(call, result) ==
  IF call.outcome.st = "pending" /\ call.pc = "racing"
    THEN [call EXCEPT !.outcome = result, !.pc = "done",
                      !.timer = IF @ = "armed" THEN "cleared" ELSE @]
    ELSE call

\* respond(promise): respond.then(resolve, reject) settles `response`, and
\* through it the race when the race has started
Respond(call, result) ==
  LET settled == IF call.inner.st = "pending" THEN [call EXCEPT !.inner = result] ELSE call
  IN Settle(settled, settled.inner)

\* the payload a ping carries: message is built before data is reset
PingData(ms) == ToString(ms)

\* client.<fn>(data, timeoutMS) up to its first await
ClientCall(c, fn, data, ms) ==
  /\ Len(calls) < MaxCalls
  /\ LET mid == nanoid(c)
         sent == IF fn = "ping" THEN PingData(ms) ELSE data
         checked == IF fn = "ping" THEN Undefined ELSE data
     IN
       IF ~assertConnectionOpen(c)
         THEN /\ calls' = Append(calls, Call(c, "call", fn, data, ms, NoMid, "done",
                                             Rejected(NotOpenError(readyState[c]))))
              /\ UNCHANGED waitingForResponse
         ELSE IF clientValidate /\ fn \in functionValidation /\ ValidatorRefuses(checked)
           THEN /\ calls' = Append(calls, Call(c, "call", fn, sent, ms, mid, "done",
                                               Rejected(ValidationError)))
                /\ UNCHANGED waitingForResponse
           ELSE /\ calls' = Append(calls, Call(c, "call", fn, sent, ms, mid, "serialize",
                                               Pending))
                /\ waitingForResponse' =
                     [waitingForResponse EXCEPT ![c] = (mid :> (Len(calls) + 1)) @@ @]
  /\ UNCHANGED <<inner, closes, pings, crafted, listeners, lifecycle, builder,
                 eventHandlers, marked, log, connects,
                 clientValidate, serverValidate, readyState, epoch, toServer,
                 toClient, activeConnections, isClosed, requests, unhandled, userClosed>>

\* client.sendEvent(name, data) up to its first await
ClientSendEvent(c, name, data) ==
  /\ Len(calls) < MaxCalls
  /\ calls' = Append(calls,
       IF ~assertConnectionOpen(c)
         THEN Call(c, "event", name, data, 0, NoMid, "done",
                   Rejected(NotOpenError(readyState[c])))
         ELSE IF clientValidate /\ name \in eventValidation /\ ValidatorRefuses(data)
           THEN Call(c, "event", name, data, 0, NoMid, "done", Rejected(ValidationError))
           ELSE Call(c, "event", name, data, 0, NoMid, "serialize", Pending))
  /\ UNCHANGED <<inner, closes, pings, crafted, listeners, lifecycle, builder,
                 eventHandlers, marked, log, connects,
                 clientValidate, serverValidate, readyState, epoch,
                 waitingForResponse, toServer, toClient, activeConnections,
                 isClosed, requests, unhandled, userClosed>>

\* the transport's send on a connection that is not open: it throws or it
\* discards the message, depending on the transport
SendError == Error(Msg("WebSocket is not open", "", 0), NoCode, Undefined)

\* the message an operation puts on the wire
WireOf(call) ==
  IF call.op = "call"
    THEN serialize([mt |-> call.fn, data |-> call.data, mid |-> call.mid])
    ELSE serialize([ev |-> call.fn, data |-> call.data])

\* the operation after conn.send returned: a call arms its timer and starts
\* the race, a sendEvent is done
AfterSend(call) ==
  IF call.op = "call"
    THEN LET racing == [call EXCEPT !.pc = "racing", !.timer = "armed", !.left = call.ms]
         IN IF racing.inner.st # "pending" THEN Settle(racing, racing.inner) ELSE racing
    ELSE [call EXCEPT !.pc = "done", !.outcome = Resolved(Undefined)]

\* the channel to the server after the client sent msg: the message travels
\* while the server's socket of this connection is there, else it is lost
Carry(c, channel, msg) ==
  IF <<c, epoch[c]>> \in activeConnections THEN Append(channel, msg) ELSE channel

\* a client operation resumes after `await serialize(...)`: conn.send
ClientSend(k) ==
  /\ k \in DOMAIN calls
  /\ calls[k].pc = "serialize"
  /\ calls[k].who \in Clients
  /\ LET call == calls[k]
         c == call.who
     IN
       \/ /\ readyState[c] = 1
          /\ toServer' = [toServer EXCEPT ![c] = Carry(c, @, WireOf(call))]
          /\ calls' = [calls EXCEPT ![k] = AfterSend(call)]
       \/ /\ readyState[c] # 1
          /\ calls' = [calls EXCEPT ![k] = AfterSend(call)]
          /\ UNCHANGED toServer
       \/ /\ readyState[c] # 1
          /\ calls' = [calls EXCEPT ![k].pc = "done", ![k].outcome = Rejected(SendError)]
          /\ UNCHANGED toServer
  /\ UNCHANGED <<inner, closes, pings, crafted, listeners, lifecycle, builder,
                 eventHandlers, marked, log, connects,
                 clientValidate, serverValidate, readyState, epoch,
                 waitingForResponse, toClient, activeConnections, isClosed,
                 requests, unhandled, userClosed>>

\* timeout.then(() => waitingForResponse.delete(mid)): the timeout promise
\* only ever rejects, so the fulfilment callback, and with it the delete,
\* never runs: the table is what it was
AfterTimeout(table, mid) == table

\* the timer of createTimeout fires: the race rejects with the Timeout error
TimerFire(k) ==
  /\ k \in DOMAIN calls
  /\ calls[k].timer = "armed"
  /\ calls[k].left = 0
  /\ LET call == calls[k]
         fired == [call EXCEPT !.timer = "fired"]
     IN /\ calls' = [calls EXCEPT ![k] = Settle(fired, Rejected(TimeoutError(call.fn, call.ms)))]
        /\ waitingForResponse' =
             IF call.who \in Clients
               THEN [waitingForResponse EXCEPT ![call.who] = AfterTimeout(@, call.mid)]
               ELSE waitingForResponse
  /\ UNCHANGED <<inner, closes, pings, crafted, listeners, lifecycle, builder,
                 eventHandlers, marked, log, connects,
                 clientValidate, serverValidate, readyState, epoch, toServer,
                 toClient, activeConnections, isClosed, requests, unhandled, userClosed>>

(* --------------------- setupClient: messageHandler -------------------- *)
MidOf(parsed) == IF "mid" \in DOMAIN parsed THEN parsed.mid ELSE NoMid
\* waitingForResponse.delete(messageID)
Delete(table, mid) == [m \in DOMAIN table \ {mid} |-> table[m]]

\* the error rebuilt from an error envelope: Object.assign(new RpcError(..),
\* {code, data}) leaves the envelope's own code and data on it
ResponseError(parsed) == Error(parsed.message, CodeOf(parsed), DataOf(parsed))
\* `const error = functionValidation[mt]`: the validator itself, not a verdict
ValidatorItself(mt) == [kind |-> "function", name |-> mt]

\* what the entry of a response envelope is answered with
ResponseResult(parsed) ==
  IF clientValidate /\ parsed.mt \in functionValidation
    THEN Rejected(ValidatorItself(parsed.mt))
    ELSE Resolved(DataOf(parsed))

\* the calls after the client has handled one parsed message
ClientHandled(c, parsed) ==
  LET table == waitingForResponse[c]
      mid == MidOf(parsed)
  IN IF mid \notin DOMAIN table \/ ("err" \notin DOMAIN parsed /\ "mt" \notin DOMAIN parsed)
       THEN calls
       ELSE [calls EXCEPT ![table[mid]] =
               Respond(@, IF "err" \in DOMAIN parsed
                            THEN Rejected(ResponseError(parsed))
                            ELSE ResponseResult(parsed))]

\* the table after the client has handled one parsed message
\* (ClientTableAnyId: the variant that forgets the call of every object that
\* carries an id, marker or not, which C26 rules out)
ClientTableAnyId(c, parsed) ==
  IF "mid" \in DOMAIN parsed
    THEN Delete(waitingForResponse[c], parsed.mid)
    ELSE waitingForResponse[c]
ClientTable(c, parsed) ==
  IF "err" \in DOMAIN parsed \/ "mt" \in DOMAIN parsed
    THEN Delete(waitingForResponse[c], MidOf(parsed))
    ELSE waitingForResponse[c]

\* eventHandling.dispatch throws the validator's error
DispatchThrows(validate, parsed) ==
  /\ "err" \notin DOMAIN parsed
  /\ "ev" \in DOMAIN parsed
  /\ validate
  /\ parsed.ev \in eventValidation
  /\ ValidatorRefuses(DataOf(parsed))

\* dispatch(parsed) on endpoint e: the log entry of this run
dispatch(e, validate, parsed) ==
  LET handlers == eventHandlers[e][parsed.ev]
  IN IF DispatchThrows(validate, parsed)
       THEN Entry("dispatch", parsed.ev, "", handlers, <<>>, TRUE)
       ELSE Entry("dispatch", parsed.ev, "", handlers, Invoke(handlers).ran,
                  Invoke(handlers).threw)

\* the client's message listener reaches eventHandling.dispatch
ClientDispatches(parsed) ==
  "err" \notin DOMAIN parsed /\ "mt" \notin DOMAIN parsed /\ "ev" \in DOMAIN parsed

\* the client's message listener has deserialized a message
ClientHandles(c, parsed) ==
  IF ~IsObject(parsed)
    THEN UNCHANGED <<calls, waitingForResponse, log, unhandled>>
    ELSE /\ calls' = ClientHandled(c, parsed)
         /\ waitingForResponse' = [waitingForResponse EXCEPT ![c] = ClientTable(c, parsed)]
         /\ log' = IF ClientDispatches(parsed)
                     THEN LET entry == dispatch(c, clientValidate, parsed)
                          IN Logged(c, entry, Fired(log[c].oneShot, entry))
                     ELSE log
         /\ unhandled' =
              IF ClientDispatches(parsed) /\ dispatch(c, clientValidate, parsed).threw
                THEN unhandled \cup {<<c, "dispatch">>}
                ELSE unhandled

\* a message listener of the client's transport runs on the next inbound
\* message: a 'ping' is answered with 'pong', anything else is deserialized
\* and classified; the message is delivered once every listener has run
ClientReceive(c) ==
  /\ toClient[c] # <<>>
  /\ IF Head(toClient[c]) = PingFrame
       THEN /\ toServer' = [toServer EXCEPT ![c] =
                              IF readyState[c] = 1 THEN Carry(c, @, PongFrame) ELSE @]
            /\ UNCHANGED <<calls, waitingForResponse, log, unhandled>>
       ELSE /\ ClientHandles(c, deserialize(Head(toClient[c])))
            /\ UNCHANGED toServer
  /\ IF listeners[c].ran + 1 >= listeners[c].bound
       THEN /\ toClient' = [toClient EXCEPT ![c] = Tail(@)]
            /\ listeners' = [listeners EXCEPT ![c].ran = 0]
       ELSE /\ listeners' = [listeners EXCEPT ![c].ran = @ + 1]
            /\ UNCHANGED toClient
  /\ UNCHANGED <<inner, closes, pings, crafted, lifecycle, builder,
                 eventHandlers, marked, connects,
                 clientValidate, serverValidate, readyState, epoch,
                 activeConnections, isClosed, requests, userClosed>>

(* --------------------- setupServer: messageHandler -------------------- *)
\* client.send(message) on a server-side socket reaches the peer while that
\* socket's connection is up
\* (LiveFirst: the variant in which only a transport's first connection is
\* served, which C11 rules out)
LiveFirst(sock) == sock[2] = 0 /\ readyState[sock[1]] \in {1, 2}
Live(sock) ==
  /\ sock \in activeConnections
  /\ epoch[sock[1]] = sock[2]
  /\ readyState[sock[1]] \in {1, 2}
\* the channels after the server sent each of `out` (records [to, msg])
Deliver(out) ==
  [c \in Clients |->
     LET mine == SelectSeq(out, LAMBDA o : o.to[1] = c /\ Live(o.to))
     IN toClient[c] \o [i \in 1..Len(mine) |-> mine[i].msg]]

NoHandlerError(mt) == Msg("Server had no registered handler for function", mt, 0)

\* the reply the server sends at once, without running a handler; none for
\* a request that goes on to its handler
\* (ImmediateReplyPingLast: the variant that looks for ping only after the
\* handler lookup and the validator, which C24 rules out)
\* (ImmediateReplyUnvalidated: the variant that hands a refused payload to
\* the handler, which C34 rules out)
ImmediateReplyUnvalidated(parsed) ==
  LET mt == parsed.mt
      mid == MidOf(parsed)
  IN CASE mt = "ping" -> <<[mt |-> mt, mid |-> mid]>>
       [] mt # "ping" /\ mt \notin Handlers ->
            <<[mid |-> mid, err |-> TRUE, message |-> NoHandlerError(mt)]>>
       [] OTHER -> <<>>
ImmediateReplyPingLast(parsed) ==
  LET mt == parsed.mt
      mid == MidOf(parsed)
  IN CASE mt \notin Handlers ->
            <<[mid |-> mid, err |-> TRUE, message |-> NoHandlerError(mt)]>>
       [] mt \in Handlers /\ serverValidate /\ mt \in functionValidation
            /\ ValidatorRefuses(DataOf(parsed)) ->
            <<[mid |-> mid, err |-> TRUE, message |-> ValidationError.message,
               code |-> ValidationError.code]>>
       [] OTHER -> IF mt = "ping" THEN <<[mt |-> mt, mid |-> mid]>> ELSE <<>>
ImmediateReply(parsed) ==
  LET mt == parsed.mt
      mid == MidOf(parsed)
  IN CASE mt = "ping" -> <<[mt |-> mt, mid |-> mid]>>
       [] mt # "ping" /\ mt \notin Handlers ->
            <<[mid |-> mid, err |-> TRUE, message |-> NoHandlerError(mt)]>>
       [] mt # "ping" /\ mt \in Handlers /\ serverValidate /\ mt \in functionValidation
            /\ ValidatorRefuses(DataOf(parsed)) ->
            <<[mid |-> mid, err |-> TRUE, message |-> ValidationError.message,
               code |-> ValidationError.code]>>
       [] OTHER -> <<>>

\* the reply sent when the handler's promise settles
HandlerReply(req) ==
  IF HandlerKind(req.mt) = "returns"
    THEN [mt |-> req.mt, mid |-> req.mid, data |-> HandlerValue(req.mt, req.data)]
    ELSE [mid |-> req.mid, err |-> TRUE, message |-> HandlerError(req.mt).message,
          code |-> HandlerError(req.mt).code]

\* the sockets a reply to a request received on `sock` is sent on
\* (ReplyToEveryone: the variant that broadcasts a reply, which C9 rules out)
ReplyToEveryone(sock) == activeConnections
ReplyTo(sock) == {sock}

Request(sock, parsed, st, sent) ==
  [sock |-> sock, mid |-> MidOf(parsed), mt |-> parsed.mt, data |-> DataOf(parsed),
   st |-> st, left |-> IF st = "running" THEN HandlerDuration(parsed.mt) ELSE 0,
   sent |-> sent]

Outgoing(socks, envs) ==
  LET pairs == {<<s, i>> : s \in socks, i \in DOMAIN envs}
      F[S \in SUBSET pairs] ==
        IF S = {} THEN <<>>
        ELSE LET p == CHOOSE x \in S : TRUE
             IN <<[to |-> p[1], msg |-> serialize(envs[p[2]]), env |-> envs[p[2]]]>>
                  \o F[S \ {p}]
  IN F[pairs]

\* listenForPongs(client) of one probe: the peer leaves the wait set, and
\* when the set is empty the listener is removed and waitForPongs resolves
listenForPongs(probe, sock) ==
  IF ~probe.listening THEN probe
  ELSE IF probe.waitingFor \ {sock} # {}
    THEN [probe EXCEPT !.waitingFor = @ \ {sock}]
    ELSE [probe EXCEPT !.waitingFor = {}, !.listening = FALSE,
                       !.outcome = IF @.st = "pending" THEN Resolved(Undefined) ELSE @,
                       !.timer = IF @ = "armed" THEN "cleared" ELSE @]

\* the server's message listener has deserialized a message of one socket
ServerHandles(sock, parsed) ==
  IF ~IsObject(parsed) \/ "err" \in DOMAIN parsed
    THEN UNCHANGED <<toClient, requests, unhandled, log>>
    ELSE IF "ev" \in DOMAIN parsed
      THEN /\ log' = LET entry == dispatch("server", serverValidate, parsed)
                     IN Logged("server", entry, Fired(log["server"].oneShot, entry))
           /\ unhandled' = IF dispatch("server", serverValidate, parsed).threw
                             THEN unhandled \cup {<<"server", "dispatch">>}
                             ELSE unhandled
           /\ UNCHANGED <<toClient, requests>>
      ELSE IF "mt" \in DOMAIN parsed
        THEN LET now == Outgoing(ReplyTo(sock), ImmediateReply(parsed))
             IN IF now # <<>>
                  THEN /\ toClient' = Deliver(now)
                       /\ requests' = Append(requests, Request(sock, parsed, "done", now))
                       /\ UNCHANGED <<unhandled, log>>
                  ELSE IF HandlerKind(parsed.mt) = "throws"
                    THEN /\ requests' = Append(requests,
                                               Request(sock, parsed, "threw", <<>>))
                         /\ unhandled' = unhandled \cup {<<"server", "handler">>}
                         /\ UNCHANGED <<toClient, log>>
                    ELSE /\ requests' = Append(requests,
                                               Request(sock, parsed, "running", <<>>))
                         /\ UNCHANGED <<toClient, unhandled, log>>
        ELSE UNCHANGED <<toClient, requests, unhandled, log>>

\* the server's message listener of one socket runs on the next message: a
\* 'pong' goes to the listener of every probe, anything else is deserialized
\* and classified
ServerReceive(c) ==
  /\ toServer[c] # <<>>
  /\ IF Head(toServer[c]) = PongFrame
       THEN /\ pings' = [i \in DOMAIN pings |-> listenForPongs(pings[i], Sock(c))]
            /\ UNCHANGED <<toClient, requests, unhandled, log>>
       ELSE /\ ServerHandles(Sock(c), deserialize(Head(toServer[c])))
            /\ UNCHANGED pings
  /\ toServer' = [toServer EXCEPT ![c] = Tail(@)]
  /\ UNCHANGED <<inner, closes, crafted, listeners, lifecycle, builder,
                 eventHandlers, marked, connects,
                 clientValidate, serverValidate, readyState, epoch,
                 waitingForResponse, calls, activeConnections, isClosed, userClosed>>

\* the promise of a running handler settles and its reply is sent
HandlerSettle(i) ==
  /\ i \in DOMAIN requests
  /\ requests[i].st = "running"
  /\ requests[i].left = 0
  /\ LET out == Outgoing(ReplyTo(requests[i].sock), <<HandlerReply(requests[i])>>)
     IN /\ toClient' = Deliver(out)
        /\ requests' = [requests EXCEPT ![i].st = "done", ![i].sent = @ \o out]
  /\ UNCHANGED <<inner, closes, pings, crafted, listeners, lifecycle, builder,
                 eventHandlers, marked, log, connects,
                 clientValidate, serverValidate, readyState, epoch,
                 waitingForResponse, calls, toServer, activeConnections, isClosed,
                 unhandled, userClosed>>

(* ------------------------- messages of any peer ----------------------- *)
\* what a peer that is not this library may send: envelopes with one marker,
\* with several, with none, and values that are not objects; mid is the id
\* of the receiving client's first call
CraftedMid == <<"mid", 1>>
Crafted ==
  {[mt |-> "ping", mid |-> CraftedMid, data |-> "bad"],
   [mt |-> "echo", mid |-> CraftedMid, ev |-> "news", data |-> "ok"],
   [err |-> TRUE, message |-> Msg("crafted", "", 0), mid |-> CraftedMid,
    mt |-> "echo", data |-> "ok"],
   [err |-> TRUE, message |-> Msg("crafted", "", 0), mid |-> CraftedMid,
    ev |-> "news", data |-> "ok"],
   [mid |-> CraftedMid, data |-> "ok"],
   NonObject("text")}

\* a message arrives at the server's listener of c's socket
RawToServer(c, env) ==
  /\ Len(crafted) < MaxCrafted
  /\ readyState[c] = 1
  /\ crafted' = Append(crafted, [to |-> "server", of |-> c, env |-> env])
  /\ toServer' = [toServer EXCEPT ![c] = Carry(c, @, serialize(env))]
  /\ UNCHANGED <<inner, closes, pings, listeners, lifecycle, builder,
                 eventHandlers, marked, log, connects,
                 clientValidate, serverValidate, readyState, epoch,
                 waitingForResponse, calls, toClient, activeConnections, isClosed,
                 requests, unhandled, userClosed>>

\* a message arrives at the message listener of client c
RawToClient(c, env) ==
  /\ Len(crafted) < MaxCrafted
  /\ readyState[c] = 1
  /\ crafted' = Append(crafted, [to |-> "client", of |-> c, env |-> env])
  /\ toClient' = [toClient EXCEPT ![c] = Append(@, serialize(env))]
  /\ UNCHANGED <<inner, closes, pings, listeners, lifecycle, builder,
                 eventHandlers, marked, log, connects,
                 clientValidate, serverValidate, readyState, epoch,
                 waitingForResponse, calls, toServer, activeConnections, isClosed,
                 requests, unhandled, userClosed>>

(* ---------------------- setupServer: operations ----------------------- *)
\* calling `handler`, which is undefined for a name with no handler
NotAFunction == Error(Msg("handler is not a function", "", 0), NoCode, Undefined)

\* server.<fn>(data, timeoutMS): the server calls its own handler
\* (SelfCallUntimed: the variant that returns the handler's promise without
\* racing it with a timer, which C31 rules out)
SelfCallUntimed(fn, data, ms) ==
  IF fn \notin Handlers
    THEN Call("server", "call", fn, data, ms, NoMid, "done", Rejected(NotAFunction))
    ELSE [Call("server", "call", fn, data, ms, NoMid, "racing", Pending)
            EXCEPT !.work = HandlerDuration(fn)]
SelfCall(fn, data, ms) ==
  IF serverValidate /\ fn \in functionValidation /\ ValidatorRefuses(data)
    THEN Call("server", "call", fn, data, ms, NoMid, "done", Rejected(ValidationError))
    ELSE IF fn \notin Handlers
      THEN Call("server", "call", fn, data, ms, NoMid, "done", Rejected(NotAFunction))
      ELSE IF HandlerKind(fn) = "throws"
        THEN Call("server", "call", fn, data, ms, NoMid, "done", Rejected(HandlerError(fn)))
        ELSE [Call("server", "call", fn, data, ms, NoMid, "racing", Pending)
                EXCEPT !.timer = "armed", !.left = ms, !.work = HandlerDuration(fn)]

ServerCall(fn, data, ms) ==
  /\ Len(calls) < MaxCalls
  /\ calls' = Append(calls, SelfCall(fn, data, ms))
  /\ UNCHANGED <<inner, closes, pings, crafted, listeners, lifecycle, builder,
                 eventHandlers, marked, log, connects,
                 clientValidate, serverValidate, readyState, epoch,
                 waitingForResponse, toServer, toClient, activeConnections,
                 isClosed, requests, unhandled, userClosed>>

\* the handler of a self-call settles its promise
SelfSettle(k) ==
  /\ k \in DOMAIN calls
  /\ calls[k].work = 0
  /\ calls' = [calls EXCEPT ![k] =
       Respond([@ EXCEPT !.work = -1],
               IF HandlerKind(@.fn) = "returns"
                 THEN Resolved(HandlerValue(@.fn, @.data))
                 ELSE Rejected(HandlerError(@.fn)))]
  /\ UNCHANGED <<inner, closes, pings, crafted, listeners, lifecycle, builder,
                 eventHandlers, marked, log, connects,
                 clientValidate, serverValidate, readyState, epoch,
                 waitingForResponse, toServer, toClient, activeConnections,
                 isClosed, requests, unhandled, userClosed>>

\* server.sendEvent(name, data) up to its await
ServerSendEvent(name, data) ==
  /\ Len(calls) < MaxCalls
  /\ calls' = Append(calls,
       IF serverValidate /\ name \in eventValidation /\ ValidatorRefuses(data)
         THEN Call("server", "event", name, data, 0, NoMid, "done", Rejected(ValidationError))
         ELSE Call("server", "event", name, data, 0, NoMid, "serialize", Pending))
  /\ UNCHANGED <<inner, closes, pings, crafted, listeners, lifecycle, builder,
                 eventHandlers, marked, log, connects,
                 clientValidate, serverValidate, readyState, epoch,
                 waitingForResponse, toServer, toClient, activeConnections,
                 isClosed, requests, unhandled, userClosed>>

\* the connections the loop of sendEvent hands the message to, when
\* client.send throws for those in `failing`: the throw is caught and logged
\* inside the loop, which goes on with the next connection
\* (ReachedUntilThrow: the variant without try/catch, in which the first
\* throw ends the loop, which C28 rules out)
ReachedUntilThrow(socks, failing) == IF failing = {} THEN socks ELSE {}
Reached(socks, failing) == socks \ failing

\* sendEvent resumes after `await serialize(...)`: one send per active
\* connection; `failing` are the connections whose send throws
ServerBroadcast(k, failing) ==
  /\ k \in DOMAIN calls
  /\ calls[k].pc = "serialize"
  /\ calls[k].who = "server"
  /\ failing \subseteq activeConnections
  /\ toClient' = Deliver(Outgoing(Reached(activeConnections, failing),
                                  <<[ev |-> calls[k].fn, data |-> calls[k].data]>>))
  /\ calls' = [calls EXCEPT ![k].pc = "done", ![k].outcome = Resolved(Undefined),
                            ![k].failed = failing]
  /\ UNCHANGED <<inner, closes, pings, crafted, listeners, lifecycle, builder,
                 eventHandlers, marked, log, connects,
                 clientValidate, serverValidate, readyState, epoch,
                 waitingForResponse, toServer, activeConnections, isClosed,
                 requests, unhandled, userClosed>>

\* the Timeout error of a probe
PingTimeoutError(ms) == Error(Msg("Pinging all clients exceeded timeout", "", ms), Timeout, Undefined)

\* a probe: the peers it was sent to, those it still waits for (waitingFor),
\* whether its listener is in incomingPongListeners, its timer and the
\* returned promise; closed is the set of clients closing or closed when it
\* started
Probe(peers, ms) ==
  [peers |-> peers, waitingFor |-> peers, listening |-> TRUE, ms |-> ms,
   timer |-> "armed", left |-> ms, outcome |-> Pending,
   closed |-> {c \in Clients : readyState[c] \in {2, 3}}]

\* server.ping(timeoutMS): 'ping' is sent to every active connection, the
\* listener is added and the timer started
ServerPing(ms) ==
  /\ Len(pings) < MaxPings
  /\ pings' = Append(pings, Probe(activeConnections, ms))
  /\ toClient' = [c \in Clients |->
                    IF \E s \in activeConnections : s[1] = c /\ Live(s)
                      THEN Append(toClient[c], PingFrame)
                      ELSE toClient[c]]
  /\ UNCHANGED <<inner, closes, crafted, listeners, lifecycle, builder,
                 eventHandlers, marked, log, connects,
                 clientValidate, serverValidate, readyState, epoch,
                 waitingForResponse, calls, toServer, activeConnections, isClosed,
                 requests, unhandled, userClosed>>

\* the timer of a probe fires: the race rejects with the Timeout error; the
\* listener stays in incomingPongListeners
PingTimerFire(i) ==
  /\ i \in DOMAIN pings
  /\ pings[i].timer = "armed"
  /\ pings[i].left = 0
  /\ pings' = [pings EXCEPT ![i].timer = "fired",
                            ![i].outcome = IF @.st = "pending"
                                             THEN Rejected(PingTimeoutError(pings[i].ms))
                                             ELSE @]
  /\ UNCHANGED <<inner, closes, crafted, listeners, lifecycle, builder,
                 eventHandlers, marked, log, connects,
                 clientValidate, serverValidate, readyState, epoch,
                 waitingForResponse, calls, toServer, toClient, activeConnections,
                 isClosed, requests, unhandled, userClosed>>

\* a close() call: the promise it returned and the number of calls that had
\* been issued when it was made
Closing(result) == [outcome |-> result, after |-> Len(calls)]

\* the close() calls made so far, over all endpoints
Closes ==
  LET F[S \in SUBSET Endpoints] ==
        IF S = {} THEN 0
        ELSE LET e == CHOOSE x \in S : TRUE IN Len(closes[e]) + F[S \ {e}]
  IN F[Endpoints]

\* inner.close(cb) of the wrapped http(s) server: a listener that is
\* listening closes and calls cb(); one that is not running calls cb(err),
\* which close() rejects with
ListenerError == Error(Msg("Server is not running", "", 0), NoCode, Undefined)
InnerClose(listener) ==
  IF listener = "closed" THEN Rejected(ListenerError) ELSE Resolved(Undefined)

\* server.close(): the flag is set, conn.close() stops the WebSocket server,
\* which ends its connections and emits close, and the wrapped listener is
\* closed
ServerClose ==
  /\ Closes < MaxCloses
  /\ isClosed' = TRUE
  /\ activeConnections' = {}
  /\ toServer' = [c \in Clients |-> <<>>]
  /\ inner' = IF inner = "none" THEN "none" ELSE "closed"
  /\ closes' = [closes EXCEPT !["server"] = Append(@, Closing(InnerClose(inner)))]
  /\ Notify("server", "close", NoArgument)
  /\ UNCHANGED <<eventHandlers, marked, log, connects, pings, crafted, listeners, builder,
                 clientValidate, serverValidate, readyState, epoch,
                 waitingForResponse, calls, toClient, requests,
                 userClosed>>

(* ------------------------------- connect ------------------------------ *)
\* the error a failing transport emits, and the error of connect's timer
ConnectError == Error(Msg("connection refused", "", 0), NoCode, Undefined)
ConnectTimeoutError ==
  Error(Msg("Connecting to WebSocket server timed out", "", 0), Timeout, Undefined)

\* the promise of a connect(transport) call: `connecting` raced with the timer
\* (NewAttemptPoisoned: the variant in which a transport that failed once
\* fails every later connect, which C12 rules out)
NewAttemptPoisoned(c) ==
  IF \E k \in DOMAIN connects : connects[k].who = c /\ connects[k].outcome.st = "rejected"
    THEN [who |-> c, outcome |-> Rejected(ConnectError)]
    ELSE [who |-> c, outcome |-> Pending]
NewAttempt(c) == [who |-> c, outcome |-> Pending]

\* Promise.race([connecting, timeout]): the first settlement wins
SettleConnect(attempt, result) ==
  IF attempt.outcome.st = "pending" THEN [attempt EXCEPT !.outcome = result] ELSE attempt

\* connect(transport) returned a connection for this transport
Connected(c) ==
  \E k \in DOMAIN connects : connects[k].who = c /\ connects[k].outcome.st = "resolved"

\* what connect and its timer leave alone
ConnectFrame ==
  UNCHANGED <<inner, closes, pings, crafted, listeners, lifecycle, builder,
              clientValidate, serverValidate, epoch, waitingForResponse, calls,
              toServer, toClient, activeConnections, isClosed, requests, unhandled,
              userClosed, eventHandlers, marked, log>>

\* client(...).connect(transport): listeners for open and error are added
\* and the timer is started
Connect(c) ==
  /\ Len(connects) < MaxConnects
  /\ connects' = Append(connects, NewAttempt(c))
  /\ UNCHANGED readyState
  /\ ConnectFrame

\* the 10 s timer of a connect fires while it is still waiting
ConnectTimeout(k) ==
  /\ k \in DOMAIN connects
  /\ connects[k].outcome.st = "pending"
  /\ connects' = [connects EXCEPT ![k] = SettleConnect(@, Rejected(ConnectTimeoutError))]
  /\ UNCHANGED readyState
  /\ ConnectFrame

\* a connection attempt of the transport fails: it emits error, which
\* rejects every connect waiting on it, and closes; the error and close
\* listeners of a connection set up on it run
TransportError(c) ==
  /\ readyState[c] = 0
  /\ readyState' = [readyState EXCEPT ![c] = 3]
  /\ connects' = [k \in DOMAIN connects |->
                    IF connects[k].who = c
                      THEN SettleConnect(connects[k], Rejected(ConnectError))
                      ELSE connects[k]]
  /\ lifecycle' = [lifecycle EXCEPT
                     ![c].error = Noticed(lifecycle[c].onError, normalizeError(ConnectError)),
                     ![c].close = Noticed(lifecycle[c].onClose, NoArgument)]
  /\ unhandled' = unhandled
                    \cup (IF NotifyAll(lifecycle[c].onError).threw THEN {<<c, "error">>} ELSE {})
                    \cup (IF NotifyAll(lifecycle[c].onClose).threw THEN {<<c, "close">>} ELSE {})
  /\ UNCHANGED <<inner, closes, pings, crafted, listeners, builder,
                 clientValidate, serverValidate, epoch, waitingForResponse, calls,
                 toServer, toClient, activeConnections, isClosed, requests,
                 userClosed, eventHandlers, marked, log>>

(* ----------------------------- transport ------------------------------ *)
\* client.isClosed(): readyState is 2 or 3
\* (ClientIsClosedOnly: the variant that is true for closed only, which C20
\* rules out)
ClientIsClosedOnly(c) == readyState[c] = 3
ClientIsClosed(c) == readyState[c] \in {2, 3}

\* client.close(): conn.close() starts the closing handshake of a transport
\* that is connecting or open and does nothing to one that is closing or
\* closed
\* (ClientCloseRejecting: the variant that rejects the calls outstanding on
\* the connection, which C33 rules out)
ClientCloseRejecting(c) ==
  /\ Closes < MaxCloses
  /\ userClosed' = userClosed \cup {c}
  /\ readyState' = [readyState EXCEPT ![c] = IF @ \in {0, 1} THEN 2 ELSE @]
  /\ closes' = [closes EXCEPT ![c] = Append(@, Closing(Resolved(Undefined)))]
  /\ calls' = [k \in DOMAIN calls |->
                 IF calls[k].who = c /\ calls[k].pc = "racing"
                   THEN Settle(calls[k], Rejected(NotOpenError(3)))
                   ELSE calls[k]]
  /\ UNCHANGED <<inner, pings, crafted, listeners, lifecycle, builder,
                 eventHandlers, marked, log, connects,
                 clientValidate, serverValidate, epoch, waitingForResponse,
                 toServer, toClient, activeConnections, isClosed, requests,
                 unhandled>>
ClientClose(c) ==
  /\ Closes < MaxCloses
  /\ userClosed' = userClosed \cup {c}
  /\ readyState' = [readyState EXCEPT ![c] = IF @ \in {0, 1} THEN 2 ELSE @]
  /\ closes' = [closes EXCEPT ![c] = Append(@, Closing(Resolved(Undefined)))]
  /\ UNCHANGED <<inner, pings, crafted, listeners, lifecycle, builder,
                 eventHandlers, marked, log, connects,
                 clientValidate, serverValidate, epoch, waitingForResponse, calls,
                 toServer, toClient, activeConnections, isClosed, requests,
                 unhandled>>

\* the connection of a client goes down (closed by either side, or dropped):
\* both sockets emit close, what was in flight is lost, the client's close
\* listener runs
\* (TransportCloseKeeping: the variant whose server-side socket stays in
\* activeConnections, which C40 rules out)
TransportCloseKeeping(c) ==
  /\ readyState[c] # 3
  /\ readyState' = [readyState EXCEPT ![c] = 3]
  /\ toServer' = [toServer EXCEPT ![c] = <<>>]
  /\ toClient' = [toClient EXCEPT ![c] = <<>>]
  /\ Notify(c, "close", NoArgument)
  /\ UNCHANGED <<inner, closes, pings, crafted, listeners, builder,
                 eventHandlers, marked, log, connects, activeConnections,
                 clientValidate, serverValidate, epoch, waitingForResponse, calls,
                 isClosed, requests, userClosed>>
TransportClose(c) ==
  /\ readyState[c] # 3
  /\ readyState' = [readyState EXCEPT ![c] = 3]
  /\ toServer' = [toServer EXCEPT ![c] = <<>>]
  /\ toClient' = [toClient EXCEPT ![c] = <<>>]
  /\ activeConnections' = activeConnections \ {Sock(c)}
  /\ Notify(c, "close", NoArgument)
  /\ UNCHANGED <<inner, closes, pings, crafted, listeners, builder,
                 eventHandlers, marked, log, connects,
                 clientValidate, serverValidate, epoch, waitingForResponse, calls,
                 isClosed, requests, userClosed>>

\* a reconnecting transport starts a new connection attempt
TransportReconnect(c) ==
  /\ readyState[c] = 3
  /\ c \notin userClosed
  /\ epoch[c] < MaxReconnects
  /\ readyState' = [readyState EXCEPT ![c] = 0]
  /\ epoch' = [epoch EXCEPT ![c] = @ + 1]
  /\ UNCHANGED <<inner, closes, pings, crafted, listeners, lifecycle, builder,
                 eventHandlers, marked, log, connects,
                 clientValidate, serverValidate, waitingForResponse, calls,
                 toServer, toClient, activeConnections, isClosed, requests,
                 unhandled, userClosed>>

\* conn.addEventListener('message', messageHandler) and
\* conn.removeEventListener('message', messageHandler) of the ws transport,
\* on the number of message listeners: adding appends one more, removing
\* takes every one of them away
addEventListener(bound) == bound + 1
removeEventListener(bound) == 0
\* the 'open' listener of setupClient re-registers the message handler
\* (RearmWithoutOff: the variant that only adds, which C27 rules out)
RearmWithoutOff(bound) == addEventListener(bound)
Rearm(bound) == addEventListener(removeEventListener(bound))

\* the attempt succeeds: the transport emits open, which resolves every
\* connect waiting on it, and the server emits a connection
TransportOpen(c) ==
  /\ readyState[c] = 0
  /\ ~isClosed
  /\ readyState' = [readyState EXCEPT ![c] = 1]
  /\ listeners' = [listeners EXCEPT ![c].bound = Rearm(@)]
  /\ activeConnections' = activeConnections \cup {Sock(c)}
  /\ connects' = [k \in DOMAIN connects |->
                    IF connects[k].who = c
                      THEN SettleConnect(connects[k], Resolved("connection"))
                      ELSE connects[k]]
  /\ UNCHANGED <<inner, closes, pings, crafted, lifecycle, builder,
                 eventHandlers, marked, log,
                 clientValidate, serverValidate, epoch, waitingForResponse, calls,
                 toServer, toClient, isClosed, requests, unhandled, userClosed>>

(* -------------------------------- time -------------------------------- *)
\* something is ready to run now: time does not pass before it has run
Ready ==
  \/ \E c \in Clients : toServer[c] # <<>> \/ toClient[c] # <<>>
  \/ \E k \in DOMAIN calls :
       \/ calls[k].pc = "serialize"
       \/ calls[k].timer = "armed" /\ calls[k].left = 0
       \/ calls[k].work = 0
  \/ \E i \in DOMAIN requests : requests[i].st = "running" /\ requests[i].left = 0
  \/ \E i \in DOMAIN pings : pings[i].timer = "armed" /\ pings[i].left = 0

\* a timer or a handler is waiting for time to pass
Waiting ==
  \/ \E k \in DOMAIN calls : calls[k].timer = "armed" \/ calls[k].work > 0
  \/ \E i \in DOMAIN requests : requests[i].st = "running"
  \/ \E i \in DOMAIN pings : pings[i].timer = "armed"

Tick ==
  /\ ~Ready
  /\ Waiting
  /\ calls' = [k \in DOMAIN calls |->
       [calls[k] EXCEPT !.left = IF calls[k].timer = "armed" THEN @ - 1 ELSE @,
                        !.work = IF @ > 0 THEN @ - 1 ELSE @]]
  /\ requests' = [i \in DOMAIN requests |->
       [requests[i] EXCEPT !.left = IF requests[i].st = "running" THEN @ - 1 ELSE @]]
  /\ pings' = [i \in DOMAIN pings |->
       [pings[i] EXCEPT !.left = IF pings[i].timer = "armed" THEN @ - 1 ELSE @]]
  /\ UNCHANGED <<inner, closes, crafted, listeners, lifecycle, builder,
                 eventHandlers, marked, log, connects,
                 clientValidate, serverValidate, readyState, epoch,
                 waitingForResponse, toServer, toClient, activeConnections,
                 isClosed, unhandled, userClosed>>

(* ---------------------------- specification --------------------------- *)
\* the (name, payload, timeoutMS) triples calls are issued with: every name,
\* the payload the validator refuses, and every timeout against the slow
\* handler
CallInputs ==
  {<<fn, "ok", 1>> : fn \in FunctionNames}
    \cup {<<fn, "bad", 1>> : fn \in functionValidation \ {"ping"}}
    \cup {<<"slow", "ok", ms>> : ms \in 1..MaxTimeout}
\* the (name, payload) pairs events are sent with
EventInputs ==
  {<<ev, "ok">> : ev \in EventNames} \cup {<<ev, "bad">> : ev \in eventValidation}

\* calls between two clients and the server over connections that stay up
Next ==
  \/ \E c \in Clients, in \in CallInputs : ClientCall(c, in[1], in[2], in[3])
  \/ \E k \in 1..MaxCalls : ClientSend(k)
  \/ \E k \in 1..MaxCalls : TimerFire(k)
  \/ \E c \in Clients : ClientReceive(c)
  \/ \E c \in Clients : ServerReceive(c)
  \/ \E i \in 1..MaxCalls : HandlerSettle(i)
  \/ \E in \in CallInputs : in[1] # "ping" /\ ServerCall(in[1], in[2], in[3])
  \/ \E k \in 1..MaxCalls : SelfSettle(k)
  \/ Tick

Spec == Init /\ [][Next]_vars

\* one client whose transport closes, drops and re-opens, and the server,
\* issuing calls and events in every connection state
LifeClients == {"c1"}
LifeInputs == {<<"echo", "ok", 1>>, <<"nofn", "ok", 1>>}

NextLife ==
  \/ \E c \in LifeClients, in \in LifeInputs : ClientCall(c, in[1], in[2], in[3])
  \/ \E c \in LifeClients, in \in EventInputs : ClientSendEvent(c, in[1], in[2])
  \/ \E k \in 1..MaxCalls : ClientSend(k)
  \/ \E k \in 1..MaxCalls : TimerFire(k)
  \/ \E c \in Clients : ClientReceive(c)
  \/ \E c \in Clients : ServerReceive(c)
  \/ \E i \in 1..MaxCalls : HandlerSettle(i)
  \/ \E in \in LifeInputs : ServerCall(in[1], in[2], in[3])
  \/ \E k \in 1..MaxCalls : SelfSettle(k)
  \/ \E in \in EventInputs : ServerSendEvent(in[1], in[2])
  \/ \E k \in 1..MaxCalls, failing \in SUBSET activeConnections : ServerBroadcast(k, failing)
  \/ ~isClosed /\ ServerClose
  \/ \E c \in LifeClients : c \notin userClosed /\ ClientClose(c)
  \/ \E c \in LifeClients : TransportClose(c)
  \/ \E c \in LifeClients : TransportReconnect(c)
  \/ \E c \in LifeClients : TransportOpen(c)
  \/ Tick

SpecLife == Init /\ [][NextLife]_vars

\* one client subscribing and unsubscribing handlers while the server sends
\* events over connections whose send succeeds
SubEndpoints == {"c1"}

NextEvents ==
  \/ \E e \in SubEndpoints, name \in EventNames, cb \in Callbacks : On(e, name, cb)
  \/ \E e \in SubEndpoints, name \in EventNames, cb \in Callbacks : Once(e, name, cb)
  \/ \E e \in SubEndpoints, name \in EventNames, cb \in Callbacks : Off(e, name, cb)
  \/ \E e \in SubEndpoints, name \in EventNames : OffAll(e, name)
  \/ \E in \in EventInputs : ServerSendEvent(in[1], in[2])
  \/ \E k \in 1..MaxCalls : ServerBroadcast(k, {})
  \/ \E c \in SubEndpoints : ClientReceive(c)

SpecEvents == Init /\ [][NextEvents]_vars

\* calls and events with payloads the validators accept and refuse, made by
\* one client and by the server over a connection that stays up
ValidatedInputs ==
  {<<fn, data, 1>> : fn \in functionValidation \ {"ping"}, data \in {"ok", "bad"}}
    \cup {<<"slow", "ok", 1>>}

NextValidate ==
  \/ \E c \in LifeClients, in \in ValidatedInputs : ClientCall(c, in[1], in[2], in[3])
  \/ \E c \in LifeClients, in \in EventInputs : ClientSendEvent(c, in[1], in[2])
  \/ \E in \in ValidatedInputs : ServerCall(in[1], in[2], in[3])
  \/ \E in \in EventInputs : ServerSendEvent(in[1], in[2])
  \/ \E k \in 1..MaxCalls : ClientSend(k)
  \/ \E k \in 1..MaxCalls, failing \in SUBSET activeConnections : ServerBroadcast(k, failing)
  \/ \E k \in 1..MaxCalls : TimerFire(k)
  \/ \E k \in 1..MaxCalls : SelfSettle(k)
  \/ \E c \in Clients : ClientReceive(c)
  \/ \E c \in Clients : ServerReceive(c)
  \/ \E i \in 1..MaxCalls : HandlerSettle(i)
  \/ Tick

SpecValidate == Init /\ [][NextValidate]_vars

\* one client whose transport has not opened yet: connect is called on it
\* while its attempts fail and succeed, and calls are made on the connection
InitConnect ==
  /\ clientValidate \in BOOLEAN
  /\ serverValidate \in BOOLEAN
  /\ readyState = [c \in Clients |-> 0]
  /\ epoch = [c \in Clients |-> 0]
  /\ waitingForResponse = [c \in Clients |-> <<>>]
  /\ calls = <<>>
  /\ toServer = [c \in Clients |-> <<>>]
  /\ toClient = [c \in Clients |-> <<>>]
  /\ activeConnections = {}
  /\ isClosed = FALSE
  /\ requests = <<>>
  /\ unhandled = {}
  /\ userClosed = {}
  /\ eventHandlers = [e \in Endpoints |-> [name \in EventNames |-> <<>>]]
  /\ marked = {}
  /\ log = [e \in Endpoints |-> [last |-> NoEntry, subs |-> 0, oneShot |-> <<>>]]
  /\ connects = <<>>
  /\ inner = "none"
  /\ closes = [e \in Endpoints |-> <<>>]
  /\ pings = <<>>
  /\ crafted = <<>>
  /\ listeners = [c \in Clients |-> [bound |-> 1, ran |-> 0]]
  /\ lifecycle = [e \in Endpoints |-> NoHooks]
  /\ builder = NewBuilder

NextConnect ==
  \/ \E c \in LifeClients : Connect(c)
  \/ \E k \in 1..MaxConnects : ConnectTimeout(k)
  \/ \E c \in LifeClients : TransportError(c)
  \/ \E c \in LifeClients : TransportReconnect(c)
  \/ \E c \in LifeClients : TransportOpen(c)
  \/ \E c \in LifeClients : TransportClose(c)
  \/ \E c \in LifeClients, in \in LifeInputs :
        Connected(c) /\ ClientCall(c, in[1], in[2], in[3])
  \/ \E k \in 1..MaxCalls : ClientSend(k)
  \/ \E k \in 1..MaxCalls : TimerFire(k)
  \/ \E c \in Clients : ClientReceive(c)
  \/ \E c \in Clients : ServerReceive(c)
  \/ \E i \in 1..MaxCalls : HandlerSettle(i)
  \/ Tick

SpecConnect == InitConnect /\ [][NextConnect]_vars

\* two clients and a server that may wrap a listener: close() is called on
\* them, more than once, while connections go down
InitClose ==
  /\ clientValidate \in BOOLEAN
  /\ serverValidate \in BOOLEAN
  /\ readyState = [c \in Clients |-> 1]
  /\ epoch = [c \in Clients |-> 0]
  /\ waitingForResponse = [c \in Clients |-> <<>>]
  /\ calls = <<>>
  /\ toServer = [c \in Clients |-> <<>>]
  /\ toClient = [c \in Clients |-> <<>>]
  /\ activeConnections = {<<c, 0>> : c \in Clients}
  /\ isClosed = FALSE
  /\ requests = <<>>
  /\ unhandled = {}
  /\ userClosed = {}
  /\ eventHandlers = [e \in Endpoints |-> [name \in EventNames |-> <<>>]]
  /\ marked = {}
  /\ log = [e \in Endpoints |-> [last |-> NoEntry, subs |-> 0, oneShot |-> <<>>]]
  /\ connects = <<>>
  /\ inner \in {"none", "listening"}
  /\ closes = [e \in Endpoints |-> <<>>]
  /\ pings = <<>>
  /\ crafted = <<>>
  /\ listeners = [c \in Clients |-> [bound |-> 1, ran |-> 0]]
  /\ lifecycle = [e \in Endpoints |-> NoHooks]
  /\ builder = NewBuilder

NextClose ==
  \/ \E c \in Clients : ClientClose(c)
  \/ ServerClose
  \/ \E c \in Clients : TransportClose(c)

SpecClose == InitClose /\ [][NextClose]_vars

\* two clients and the server pinging each other while connections close
NextPing ==
  \/ ServerPing(1)
  \/ \E i \in 1..MaxPings : PingTimerFire(i)
  \/ \E c \in LifeClients : ClientCall(c, "ping", "ok", 1)
  \/ \E k \in 1..MaxCalls : ClientSend(k)
  \/ \E k \in 1..MaxCalls : TimerFire(k)
  \/ \E c \in Clients : ClientReceive(c)
  \/ \E c \in Clients : ServerReceive(c)
  \/ \E c \in Clients : c \notin userClosed /\ ClientClose(c)
  \/ ~isClosed /\ ServerClose
  \/ \E c \in Clients : TransportClose(c)
  \/ Tick

\* (with validation off, so that a validator registered for ping does not
\* come between a client and the answer to its ping)
InitPing == Init /\ ~clientValidate /\ ~serverValidate
SpecPing == InitPing /\ [][NextPing]_vars

\* one client and the server receiving, besides each other's messages, what
\* any peer may send, while a call is pending and handlers are subscribed
WireInputs == {<<"echo", "ok", 1>>}

NextWire ==
  \/ \E c \in LifeClients, env \in Crafted : RawToServer(c, env)
  \/ \E c \in LifeClients, env \in Crafted : RawToClient(c, env)
  \/ \E c \in LifeClients, in \in WireInputs : ClientCall(c, in[1], in[2], in[3])
  \/ \E e \in Endpoints \ {"c2"} : log[e].subs = 0 /\ On(e, "news", "f")
  \/ \E k \in 1..MaxCalls : ClientSend(k)
  \/ \E c \in Clients : ClientReceive(c)
  \/ \E c \in Clients : ServerReceive(c)
  \/ \E i \in 1..(MaxCalls + MaxCrafted) : HandlerSettle(i)

SpecWire == Init /\ [][NextWire]_vars

\* an application chaining func and event calls on a builder
NextBuild ==
  \/ \E name \in BuilderNames \cup {NoArgumentGiven},
        validation \in Validators \cup {NoArgumentGiven} : Func(name, validation)
  \/ \E name \in BuilderNames \cup {NoArgumentGiven},
        validation \in Validators \cup {NoArgumentGiven} : Event(name, validation)

SpecBuild == InitPing /\ [][NextBuild]_vars

\* applications registering and cancelling lifecycle callbacks, on a client
\* for close and error and on the server for close, while the client's
\* transport fails, closes and re-opens and the server is closed
NotifyEndpoints == {"c1", "server"}

NextNotify ==
  \/ \E e \in NotifyEndpoints, cb \in Callbacks : OnClose(e, cb)
  \/ \E c \in LifeClients, cb \in Callbacks : OnError(c, cb)
  \/ \E e \in NotifyEndpoints, cb \in Callbacks : CancelOnClose(e, cb)
  \/ \E c \in LifeClients, cb \in Callbacks : CancelOnError(c, cb)
  \/ \E c \in LifeClients, error \in TransportErrors : EmitError(c, error)
  \/ \E c \in LifeClients : TransportClose(c)
  \/ \E c \in LifeClients : TransportReconnect(c)
  \/ \E c \in LifeClients : TransportOpen(c)
  \/ ~isClosed /\ ServerClose

\* (validation, which plays no part in these callbacks, is off)
SpecNotify == InitPing /\ [][NextNotify]_vars

\* one client, validating or not, calling the validated function with
\* payloads its validator accepts and refuses, and a peer that sends requests
\* with a refused payload for it and for the reserved name ping
RefusedInputs == {<<"checked", "ok", 1>>, <<"checked", "bad", 1>>, <<"slow", "ok", 1>>}
RefusedRequests ==
  {[mt |-> fn, mid |-> CraftedMid, data |-> "bad"] : fn \in functionValidation}

NextRefuse ==
  \/ \E c \in LifeClients, in \in RefusedInputs : ClientCall(c, in[1], in[2], in[3])
  \/ \E c \in LifeClients, env \in RefusedRequests : RawToServer(c, env)
  \/ \E k \in 1..MaxCalls : ClientSend(k)
  \/ \E k \in 1..MaxCalls : TimerFire(k)
  \/ \E c \in LifeClients : ClientReceive(c)
  \/ \E c \in LifeClients : ServerReceive(c)
  \/ \E i \in 1..MaxCalls : HandlerSettle(i)
  \/ Tick

SpecRefuse == Init /\ [][NextRefuse]_vars

\* two peers, one of which closes, drops and reconnects, while the server
\* sends events and probes them
NextPeers ==
  \/ ServerSendEvent("news", "ok")
  \/ \E k \in 1..MaxCalls : ServerBroadcast(k, {})
  \/ ServerPing(1)
  \/ \E i \in 1..MaxPings : PingTimerFire(i)
  \/ \E c \in Clients : ClientReceive(c)
  \/ \E c \in Clients : ServerReceive(c)
  \/ \E c \in LifeClients : c \notin userClosed /\ ClientClose(c)
  \/ ~isClosed /\ ServerClose
  \/ \E c \in Clients : TransportClose(c)
  \/ \E c \in LifeClients : TransportReconnect(c)
  \/ \E c \in LifeClients : TransportOpen(c)
  \/ Tick

SpecPeers == InitPing /\ [][NextPeers]_vars

\* one client calling a fast and the slow handler while it, the server and
\* the transport close; the event loop keeps running
ShutInputs == {<<"echo", "ok", 1>>, <<"slow", "ok", 1>>, <<"slow", "ok", MaxTimeout>>}

NextShut ==
  \/ \E c \in LifeClients, in \in ShutInputs : ClientCall(c, in[1], in[2], in[3])
  \/ \E k \in 1..MaxCalls : ClientSend(k)
  \/ \E k \in 1..MaxCalls : TimerFire(k)
  \/ \E c \in LifeClients : ClientReceive(c)
  \/ \E c \in LifeClients : ServerReceive(c)
  \/ \E i \in 1..MaxCalls : HandlerSettle(i)
  \/ \E c \in LifeClients : c \notin userClosed /\ ClientClose(c)
  \/ ~isClosed /\ ServerClose
  \/ \E c \in LifeClients : TransportClose(c)
  \/ Tick

SpecShut == InitPing /\ [][NextShut]_vars

\* the event loop runs every task that is ready: timers fire, queued messages
\* are delivered
FairSpecShut == SpecShut /\ WF_vars(NextShut)

(* ------------------------------- claims ------------------------------- *)
ClientCalls == {k \in DOMAIN calls : calls[k].op = "call" /\ calls[k].who \in Clients}
SelfCalls == {k \in DOMAIN calls : calls[k].op = "call" /\ calls[k].who = "server"}
Settled(k) == calls[k].outcome.st # "pending"
TimedOut(k) == calls[k].outcome = Rejected(TimeoutError(calls[k].fn, calls[k].ms))
\* the requests the server received for call k
RequestsOf(k) ==
  {i \in DOMAIN requests :
     requests[i].sock[1] = calls[k].who /\ requests[i].mid = calls[k].mid}

\* call k's request went on to its handler (no reply was sent in its place)
ReachedHandler(k) == \E i \in RequestsOf(k) : ImmediateReply(requests[i]) = <<>>

\* C1: a call's promise (client call or server self-call) is pending,
\* resolved or rejected, and once it has settled no later response, error
\* or timer expiry changes its outcome.
C1_SettlesOnce ==
  [][\A k \in DOMAIN calls :
       /\ calls[k].outcome.st \in {"pending", "resolved", "rejected"}
       /\ Settled(k) => calls'[k].outcome = calls[k].outcome]_vars

\* C1 witness: a client call that timed out and whose response arrived later
\* (its `response` promise resolved), and a self-call that timed out.
C1_Witness ==
  /\ \E k \in ClientCalls : TimedOut(k) /\ calls[k].inner.st = "resolved"
  /\ \E k \in SelfCalls : TimedOut(k) /\ calls[k].inner.st = "resolved"

\* C2: a call with a timeout shorter than its handler's duration rejects
\* with the Timeout error naming the function and the bound, and a call with
\* a timeout longer than the duration of a handler that returns resolves.
C2_TimeoutThenResolve ==
  \A k \in ClientCalls :
    (calls[k].pc = "done" /\ ReachedHandler(k)
       /\ HandlerKind(calls[k].fn) = "returns") =>
      /\ calls[k].ms < HandlerDuration(calls[k].fn) => TimedOut(k)
      /\ calls[k].ms > HandlerDuration(calls[k].fn) => calls[k].outcome.st = "resolved"

\* C2, away from functions that carry a validator: the same statement holds.
C2_Unvalidated ==
  \A k \in ClientCalls :
    (calls[k].pc = "done" /\ ReachedHandler(k)
       /\ HandlerKind(calls[k].fn) = "returns"
       /\ ~(clientValidate /\ calls[k].fn \in functionValidation)) =>
      /\ calls[k].ms < HandlerDuration(calls[k].fn) => TimedOut(k)
      /\ calls[k].ms > HandlerDuration(calls[k].fn) => calls[k].outcome.st = "resolved"

\* what a response or error envelope carries for the call it answers
Carried(parsed) ==
  IF "err" \in DOMAIN parsed
    THEN Rejected(ResponseError(parsed))
    ELSE Resolved(DataOf(parsed))
\* the step in which client c handles the message at the head of its channel
Handles(c) == toClient[c] # <<>> /\ toClient'[c] = Tail(toClient[c])

\* C3: an inbound response or error envelope settles exactly the pending
\* call of that client whose mid it carries, with the payload it carries,
\* and no other call.
C3_MatchedByMid ==
  [][\A c \in Clients :
       Handles(c) =>
         LET parsed == deserialize(Head(toClient[c]))
         IN \A k \in DOMAIN calls :
              IF calls[k].who = c /\ calls[k].mid = MidOf(parsed)
                   /\ calls[k].pc = "racing"
                THEN calls'[k].outcome = Carried(parsed)
                ELSE calls'[k].outcome = calls[k].outcome]_vars

\* C3 without the payload: the envelope settles the call with its mid and
\* no other.
C3_OnlyThatCall ==
  [][\A c \in Clients :
       Handles(c) =>
         LET parsed == deserialize(Head(toClient[c]))
         IN \A k \in DOMAIN calls :
              IF calls[k].who = c /\ calls[k].mid = MidOf(parsed)
                   /\ calls[k].pc = "racing"
                THEN Settled(k)'
                ELSE calls'[k].outcome = calls[k].outcome]_vars

\* C4: a client call whose request reached a handler that returned, and
\* that did not time out first, resolves with the value the handler returned.
C4_ResolvesWithReturned ==
  \A k \in ClientCalls :
    \A i \in RequestsOf(k) :
      (Settled(k) /\ ~TimedOut(k) /\ requests[i].st = "done"
         /\ requests[i].mt \in Handlers /\ HandlerKind(requests[i].mt) = "returns"
         /\ ImmediateReply(requests[i]) = <<>>) =>
        calls[k].outcome = Resolved(HandlerValue(requests[i].mt, requests[i].data))

\* C4, away from functions that carry a validator.
C4_Unvalidated ==
  \A k \in ClientCalls :
    \A i \in RequestsOf(k) :
      (Settled(k) /\ ~TimedOut(k) /\ requests[i].st = "done"
         /\ requests[i].mt \in Handlers /\ HandlerKind(requests[i].mt) = "returns"
         /\ ImmediateReply(requests[i]) = <<>>
         /\ ~(clientValidate /\ calls[k].fn \in functionValidation)) =>
        calls[k].outcome = Resolved(HandlerValue(requests[i].mt, requests[i].data))

\* C5: a client call that has rejected with Timeout has no entry left in
\* waitingForResponse.
C5_TimeoutCleansTable ==
  \A k \in ClientCalls :
    TimedOut(k) => calls[k].mid \notin DOMAIN waitingForResponse[calls[k].who]

\* C6: an inbound response or error envelope carrying the mid of a call
\* that has settled finds no entry in the table, and changes no entry, no
\* outcome and raises nothing.
C6_LateDropped ==
  [][\A c \in Clients :
       Handles(c) =>
         LET parsed == deserialize(Head(toClient[c]))
         IN (\E k \in ClientCalls :
               calls[k].who = c /\ calls[k].mid = MidOf(parsed) /\ Settled(k)) =>
              /\ MidOf(parsed) \notin DOMAIN waitingForResponse[c]
              /\ waitingForResponse' = waitingForResponse
              /\ \A k \in DOMAIN calls : calls'[k].outcome = calls[k].outcome
              /\ unhandled' = unhandled]_vars

\* C6 as the code has it: a late envelope changes no outcome, no other
\* entry, and raises nothing.
C6_LateHarmless ==
  [][\A c \in Clients :
       Handles(c) =>
         LET parsed == deserialize(Head(toClient[c]))
         IN (\E k \in ClientCalls :
               calls[k].who = c /\ calls[k].mid = MidOf(parsed) /\ Settled(k)) =>
              /\ waitingForResponse'[c] = Delete(waitingForResponse[c], MidOf(parsed))
              /\ \A k \in DOMAIN calls : calls'[k].outcome = calls[k].outcome
              /\ unhandled' = unhandled]_vars

\* the event loop keeps running: timers fire and queued work is done
FairSpec == Spec /\ WF_vars(Next)

\* C2, its first sentence: every client call reaches a settled promise.
C2_EventuallySettles ==
  \A k \in 1..MaxCalls :
    (k \in ClientCalls) ~> (k \in ClientCalls /\ Settled(k))

\* C3, away from functions that carry a validator.
C3_Unvalidated ==
  [][\A c \in Clients :
       Handles(c) =>
         LET parsed == deserialize(Head(toClient[c]))
         IN \A k \in DOMAIN calls :
              IF calls[k].who = c /\ calls[k].mid = MidOf(parsed)
                   /\ calls[k].pc = "racing"
                THEN (clientValidate /\ calls[k].fn \in functionValidation)
                       \/ calls'[k].outcome = Carried(parsed)
                ELSE calls'[k].outcome = calls[k].outcome]_vars

\* a call of a name with no handler that got past the checks made before
\* the handler is looked up
Unregistered(k) ==
  /\ calls[k].fn \notin Handlers \cup {"ping"}
  /\ calls[k].pc = "done"
  /\ calls[k].outcome
       \notin {Rejected(ValidationError)} \cup {Rejected(NotOpenError(st)) : st \in 0..3}
\* the error names function fn
Names(result, fn) ==
  /\ result.st = "rejected"
  /\ result.val.kind = "error"
  /\ result.val.message.fn = fn

\* C7: a call of a function name with no registered handler, by a client
\* or by the server itself, rejects with an error naming that function and
\* does not end in a timeout.
C7_UnregisteredRejects ==
  \A k \in ClientCalls \cup SelfCalls :
    Unregistered(k) => Names(calls[k].outcome, calls[k].fn) /\ ~TimedOut(k)

\* C7 for client calls alone.
C7_ClientCalls ==
  \A k \in ClientCalls :
    Unregistered(k) => Names(calls[k].outcome, calls[k].fn) /\ ~TimedOut(k)

\* the error envelope of a failed handler, and the error the caller gets
FailureEnvelope(req) ==
  [mid |-> req.mid, err |-> TRUE, message |-> HandlerError(req.mt).message,
   code |-> HandlerError(req.mt).code]
FailureSeen(fn) == Error(HandlerError(fn).message, HandlerError(fn).code, Undefined)

\* C8: for every request whose handler failed (rejected promise or throw)
\* the server has sent one error envelope with the request's mid and the
\* error's message and code on the request's socket, no message-handler run
\* of the server has ended in a rejection, and the caller's promise rejects
\* with that error.
C8_HandlerFailureReported ==
  /\ \A i \in DOMAIN requests :
       (ImmediateReply(requests[i]) = <<>> /\ HandlerKind(requests[i].mt) # "returns"
          /\ requests[i].st # "running") =>
         /\ Len(requests[i].sent) = 1
         /\ requests[i].sent[1].to = requests[i].sock
         /\ requests[i].sent[1].env = FailureEnvelope(requests[i])
  /\ <<"server", "handler">> \notin unhandled
  /\ \A k \in ClientCalls :
       (calls[k].pc = "done" /\ ReachedHandler(k) /\ HandlerKind(calls[k].fn) # "returns") =>
         calls[k].outcome = Rejected(FailureSeen(calls[k].fn))

\* C8 for handlers that fail by a rejected promise.
C8_RejectedPromise ==
  /\ \A i \in DOMAIN requests :
       (ImmediateReply(requests[i]) = <<>> /\ HandlerKind(requests[i].mt) = "rejects"
          /\ requests[i].st # "running") =>
         /\ Len(requests[i].sent) = 1
         /\ requests[i].sent[1].to = requests[i].sock
         /\ requests[i].sent[1].env = FailureEnvelope(requests[i])
  /\ \A k \in ClientCalls :
       (calls[k].pc = "done" /\ ReachedHandler(k) /\ HandlerKind(calls[k].fn) = "rejects") =>
         calls[k].outcome = Rejected(FailureSeen(calls[k].fn))

\* C9: every reply of the server answers a request it has received: it is
\* sent on the socket the request arrived on and carries the request's mid,
\* a request is answered at most once, and every response or error envelope
\* in flight to a client is the reply to a request of that client.
C9_RepliesAnswerRequests ==
  /\ \A i \in DOMAIN requests :
       /\ Len(requests[i].sent) <= 1
       /\ \A j \in DOMAIN requests[i].sent :
            /\ requests[i].sent[j].to = requests[i].sock
            /\ MidOf(requests[i].sent[j].env) = requests[i].mid
  /\ \A c \in Clients :
       \A j \in DOMAIN toClient[c] :
         LET parsed == deserialize(toClient[c][j])
         IN "mid" \in DOMAIN parsed =>
              \E i \in DOMAIN requests :
                /\ requests[i].sock = Sock(c)
                /\ requests[i].mid = parsed.mid
                /\ Len(requests[i].sent) = 1
                /\ requests[i].sent[1].msg = toClient[c][j]

\* C9 witness: two requests with the same mid from different sockets, the
\* later one answered while the earlier one's handler is still running.
C9_Witness ==
  \E i, j \in DOMAIN requests :
    /\ i < j
    /\ requests[i].sock # requests[j].sock
    /\ requests[i].mid = requests[j].mid
    /\ requests[i].st = "running"
    /\ requests[j].st = "done"
    /\ Len(requests[j].sent) = 1
    /\ toClient[requests[j].sock[1]] # <<>>

\* the step that issues an operation, and the operation issued
Issues == Len(calls') = Len(calls) + 1
Issued == calls'[Len(calls')]
RejectedNotOpen(call, state) ==
  /\ call.outcome = Rejected(NotOpenError(state))
  /\ call.pc = "done"

\* C10 (amended): a call or sendEvent on a client connection whose
\* readyState is not open rejects at once with ConnectionNotOpen, sends
\* nothing and creates no pending entry.
C10_ClientNotOpenFails ==
  [][\A c \in Clients :
       (Issues /\ Issued.who = c /\ readyState[c] # 1) =>
         /\ RejectedNotOpen(Issued, readyState[c])
         /\ UNCHANGED <<toServer, toClient, waitingForResponse>>]_vars

\* C10 (as claimed): the same on either endpoint, the server being not
\* open once it has been closed.
C10_EitherEndpointNotOpenFails ==
  [][/\ \A c \in Clients :
          (Issues /\ Issued.who = c /\ readyState[c] # 1) =>
            /\ RejectedNotOpen(Issued, readyState[c])
            /\ UNCHANGED <<toServer, toClient, waitingForResponse>>
     /\ (Issues /\ Issued.who = "server" /\ isClosed) =>
          /\ RejectedNotOpen(Issued, 3)
          /\ UNCHANGED <<toServer, toClient, waitingForResponse>>]_vars

\* C10 witness: a call rejected on a transport that is connecting again
\* after a drop, and a sendEvent rejected on one that is closing.
C10_Witness ==
  /\ \E k \in ClientCalls : RejectedNotOpen(calls[k], 0)
  /\ \E k \in DOMAIN calls :
       calls[k].op = "event" /\ calls[k].who \in Clients /\ RejectedNotOpen(calls[k], 2)

\* call k's request reached the server over the connection the transport
\* has now, which is a re-opened one and still open at both ends
AfterReopen(k) ==
  /\ epoch[calls[k].who] >= 1
  /\ readyState[calls[k].who] = 1
  /\ Sock(calls[k].who) \in activeConnections
  /\ \E i \in RequestsOf(k) : requests[i].sock = Sock(calls[k].who)
Succeeds(k) == calls[k].outcome = Resolved(HandlerValue(calls[k].fn, calls[k].data))

\* C11: on a transport that drops and re-opens, a call issued while the
\* transport is not open rejects, and a call of a working handler made over
\* a re-opened connection that stays up resolves with the handler's value.
C11_UsableAfterReopen ==
  /\ [](\A k \in ClientCalls :
          (calls[k].fn \in Handlers /\ HandlerKind(calls[k].fn) = "returns"
             /\ AfterReopen(k) /\ Settled(k)) => Succeeds(k))
  /\ [][\A c \in Clients :
          (Issues /\ Issued.who = c /\ Issued.op = "call" /\ readyState[c] # 1) =>
            Issued.outcome.st = "rejected"]_vars

\* C11 witness: a call rejected while the transport was down or connecting
\* again, and a later call that resolved over the re-opened connection.
C11_Witness ==
  \E k1, k2 \in ClientCalls :
    /\ k1 < k2
    /\ calls[k1].outcome \in {Rejected(NotOpenError(0)), Rejected(NotOpenError(3))}
    /\ AfterReopen(k2)
    /\ Succeeds(k2)

\* a connect on c's transport was rejected and a later one resolved
ConnectedAfterFailure(c) ==
  \E k1, k2 \in DOMAIN connects :
    /\ k1 < k2
    /\ connects[k1].who = c /\ connects[k1].outcome.st = "rejected"
    /\ connects[k2].who = c /\ connects[k2].outcome.st = "resolved"
\* call k's request reached the server over the connection that is open now
OverOpenConnection(k) ==
  /\ readyState[calls[k].who] = 1
  /\ \E i \in RequestsOf(k) : requests[i].sock = Sock(calls[k].who)

\* C12: a rejected connect does not poison the transport: a connect called
\* later starts out waiting, every connect waiting on the transport resolves
\* in the step in which the transport emits open, and a call of a working
\* handler on a connection obtained after a failed connect resolves.
C12_ConnectAfterRejection ==
  /\ [][Len(connects') = Len(connects) + 1 =>
          connects'[Len(connects')].outcome = Pending]_vars
  /\ [][\A c \in Clients :
          (readyState[c] = 0 /\ readyState'[c] = 1) =>
            \A k \in DOMAIN connects :
              (connects[k].who = c /\ connects[k].outcome = Pending) =>
                connects'[k].outcome = Resolved("connection")]_vars
  /\ [](\A k \in ClientCalls :
          (ConnectedAfterFailure(calls[k].who) /\ OverOpenConnection(k) /\ Settled(k)
             /\ calls[k].fn \in Handlers /\ HandlerKind(calls[k].fn) = "returns") =>
            Succeeds(k))

\* C12 witness: the first connect was rejected by the transport's error, a
\* second connect on the same transport resolved, and a call made on the
\* connection it returned resolved.
C12_Witness ==
  /\ Len(connects) = 2
  /\ connects[1].outcome = Rejected(ConnectError)
  /\ connects[2].outcome = Resolved("connection")
  /\ connects[1].who = connects[2].who
  /\ \E k \in ClientCalls :
       calls[k].who = connects[2].who /\ OverOpenConnection(k) /\ Succeeds(k)

\* C13: a subscription made with once is invoked for one event only and is
\* no longer subscribed after it: its callback has run for at most one event
\* since it was subscribed, and once it has run it is not in the handler
\* set of its name.
C13_OnceRunsOnce ==
  \A e \in Endpoints :
    \A sub \in DOMAIN log[e].oneShot :
      /\ log[e].oneShot[sub] <= 1
      /\ log[e].oneShot[sub] = 1 => sub[2] \notin Range(eventHandlers[e][sub[1]])

\* C13, the first event alone: a subscription made with once runs for the
\* first event of its name that is dispatched.
C13_FirstEventRuns ==
  \A e \in Endpoints :
    (log[e].last.op = "dispatch" /\ ~log[e].last.threw) =>
      \A sub \in DOMAIN log[e].oneShot :
        sub[1] = log[e].last.name => log[e].oneShot[sub] >= 1

\* endpoint e makes a subscription call `op` in this step; the name and the
\* callback it is made with
Calls(e, op) == log'[e].subs = log[e].subs + 1 /\ log'[e].last.op = op
\* every handler set but that of `name` on endpoint e stays what it was
OthersKept(e, name) ==
  /\ \A other \in EventNames \ {name} : eventHandlers'[e][other] = eventHandlers[e][other]
  /\ \A x \in Endpoints \ {e} : eventHandlers'[x] = eventHandlers[x]
\* client e's message listener dispatches `parsed` in this step
Dispatching(e) ==
  /\ toClient[e] # <<>>
  /\ toClient'[e] = Tail(toClient[e])
  /\ ClientDispatches(deserialize(Head(toClient[e])))
Inbound(e) == deserialize(Head(toClient[e]))

\* C14: off(name) leaves no subscription for name and changes no
\* subscription for another name, and an event that arrives while no
\* subscription for its name exists invokes no handler.
C14_OffRemovesAll ==
  /\ [][\A e \in Endpoints :
          Calls(e, "off") =>
            /\ eventHandlers'[e][log'[e].last.name] = <<>>
            /\ OthersKept(e, log'[e].last.name)]_vars
  /\ [][\A e \in Clients :
          (Dispatching(e) /\ eventHandlers[e][Inbound(e).ev] = <<>>) =>
            /\ log'[e].last.op = "dispatch"
            /\ log'[e].last.ran = <<>>]_vars

\* C14 witness: off(name) has just removed a subscription made with once
\* and one made with on.
C14_Witness ==
  \E e \in Endpoints :
    /\ log[e].last.op = "off"
    /\ Len(log[e].last.before) = 2
    /\ \E cb \in Range(log[e].last.before) : cb \in marked
    /\ \E cb \in Range(log[e].last.before) : cb \notin marked
    /\ eventHandlers[e][log[e].last.name] = <<>>

\* C15: off(name, cb), which is also what the token of on and once calls,
\* removes cb from the handlers of name and nothing else: the other
\* handlers of name keep their order, the handlers of other names are
\* unchanged, and every handler still subscribed is invoked by dispatch.
C15_OffRemovesOnlyCallback ==
  /\ [][\A e \in Endpoints :
          Calls(e, "offcb") =>
            /\ eventHandlers'[e][log'[e].last.name] =
                 SelectSeq(eventHandlers[e][log'[e].last.name],
                           LAMBDA x : x # log'[e].last.cb)
            /\ OthersKept(e, log'[e].last.name)]_vars
  /\ [][\A e \in Clients :
          (Dispatching(e) /\ ~DispatchThrows(clientValidate, Inbound(e))) =>
            Range(log'[e].last.ran) = Range(eventHandlers[e][Inbound(e).ev])]_vars

\* C15 witness: off(name, cb) has just removed one of two handlers of name.
C15_Witness ==
  \E e \in Endpoints :
    /\ log[e].last.op = "offcb"
    /\ Len(log[e].last.before) = 2
    /\ log[e].last.cb \in Range(log[e].last.before)
    /\ Len(eventHandlers[e][log[e].last.name]) = 1

\* how often cb occurs in seq
Count(seq, cb) == Cardinality({i \in DOMAIN seq : seq[i] = cb})

\* C16: for every event an endpoint dispatched to its handlers, each
\* subscribed handler was invoked exactly once and no other callback was
\* invoked, and dispatch left the subscriptions as they were.
C16_EachHandlerOncePerEvent ==
  \A e \in Endpoints :
    (log[e].last.op = "dispatch" /\ ~log[e].last.threw) =>
      /\ \A cb \in Callbacks :
           Count(log[e].last.ran, cb) = IF cb \in Range(log[e].last.before) THEN 1 ELSE 0
      /\ Range(log[e].last.before) = Range(eventHandlers[e][log[e].last.name])

\* C16 witness: the second of two events of one name has been dispatched to
\* two handlers.
C16_Witness ==
  \E e \in Endpoints :
    /\ log[e].last.op = "dispatch"
    /\ Len(log[e].last.ran) = 2
    /\ Len(calls) = 2
    /\ \A k \in DOMAIN calls :
         calls[k].op = "event" /\ calls[k].pc = "done" /\ calls[k].fn = log[e].last.name
    /\ \A c \in SubEndpoints : toClient[c] = <<>>

\* C17: when an inbound event that passes validation is dispatched and one
\* of the subscribed handlers throws, every subscribed handler is still
\* invoked, handlers after the throwing one included, and the message
\* handler's run does not end in a rejection.
C17_HandlerExceptionCaught ==
  [][\A e \in Clients :
       (Dispatching(e) /\ ~DispatchThrows(clientValidate, Inbound(e))
          /\ \E cb \in Range(eventHandlers[e][Inbound(e).ev]) : CallbackThrows(cb)) =>
         /\ log'[e].last.ran = eventHandlers[e][Inbound(e).ev]
         /\ ~log'[e].last.threw
         /\ unhandled' = unhandled]_vars

\* C17 witness: the throwing handler was invoked first and the other
\* handler after it.
C17_Witness ==
  \E e \in Endpoints :
    /\ log[e].last.op = "dispatch"
    /\ log[e].last.before = <<"g", "f">>
    /\ log[e].last.ran = <<"g", "f">>
    /\ CallbackThrows("g")

\* C18: an inbound event that fails its validator is skipped without an
\* error: no handler is invoked for it and no message-handler run ends in
\* a rejection because dispatch threw.
C18_InvalidInboundSkipped ==
  \A e \in Endpoints :
    /\ <<e, "dispatch">> \notin unhandled
    /\ (log[e].last.op = "dispatch" /\ log[e].last.threw) => log[e].last.ran = <<>>

\* C18, the handlers alone: no handler is invoked for an inbound event that
\* fails its validator.
C18_NoHandlerInvoked ==
  [][\A e \in Clients :
       (Dispatching(e) /\ DispatchThrows(clientValidate, Inbound(e))) =>
         log'[e].last.ran = <<>>]_vars

\* the operation carries the payload its name's validator refuses
Refusable(call) ==
  /\ call.data = "bad"
  /\ call.fn \in (IF call.op = "call" THEN functionValidation ELSE eventValidation)
\* shouldValidate of the endpoint that issues the operation
Validating(who) == IF who = "server" THEN serverValidate ELSE clientValidate
\* a message on the wire that carries a refused payload for a validated name
RefusedOnWire(msg) ==
  LET parsed == deserialize(msg)
  IN /\ DataOf(parsed) = "bad"
     /\ \/ "mt" \in DOMAIN parsed /\ parsed.mt \in functionValidation
        \/ "ev" \in DOMAIN parsed /\ parsed.ev \in eventValidation

\* C19: an endpoint that validates rejects a call or sendEvent whose
\* payload its validator refuses with the validator's error, at once,
\* sending nothing and creating no pending entry, and never puts such a
\* payload on the wire; an endpoint that does not validate lets the same
\* operation go on to be sent (or, for a server self-call, to its handler).
C19_OutboundValidation ==
  /\ [][(Issues /\ Refusable(Issued)) =>
          IF Validating(Issued.who)
            THEN /\ Issued.outcome = Rejected(ValidationError)
                 /\ Issued.pc = "done"
                 /\ UNCHANGED <<toServer, toClient, waitingForResponse>>
            ELSE /\ Issued.outcome = Pending
                 /\ Issued.pc \in {"serialize", "racing"}]_vars
  /\ [](\A c \in Clients :
          /\ clientValidate => \A i \in DOMAIN toServer[c] : ~RefusedOnWire(toServer[c][i])
          /\ serverValidate =>
               \A i \in DOMAIN toClient[c] :
                 "ev" \in DOMAIN deserialize(toClient[c][i]) => ~RefusedOnWire(toClient[c][i]))

\* C19 witness: the validating client has rejected a call with the payload
\* its validator refuses, while an event with a refused payload from the
\* server, which does not validate, is on the wire.
C19_Witness ==
  /\ clientValidate
  /\ ~serverValidate
  /\ \E k \in ClientCalls :
       /\ Refusable(calls[k])
       /\ calls[k].outcome = Rejected(ValidationError)
       /\ calls[k].mid \notin DOMAIN waitingForResponse[calls[k].who]
  /\ \E c \in Clients : \E i \in DOMAIN toClient[c] : RefusedOnWire(toClient[c][i])

\* C20 (amended): a client's isClosed() is false while its transport is
\* connecting or open, true when the transport is closing or closed,
\* whether by close() or by a drop, and true for good once close() has been
\* called; the server's isClosed flag is false at first and, once set by
\* close(), stays set.
C20_IsClosedFollowsState ==
  /\ [](\A c \in Clients :
          /\ readyState[c] \in {0, 1} => ~ClientIsClosed(c)
          /\ readyState[c] = 3 => ClientIsClosed(c)
          /\ c \in userClosed => ClientIsClosed(c))
  /\ [][isClosed => isClosed']_vars

\* C20 (as claimed): isClosed() is false on a client from the moment its
\* connection is established until close() is called, and true after.
C20_FalseUntilCloseCalled ==
  \A c \in Clients : ClientIsClosed(c) <=> c \in userClosed

\* C20 witness: close() has been called on the client, whose transport is
\* still closing, and on the server: isClosed() is true on both.
C20_Witness ==
  /\ isClosed
  /\ \E c \in userClosed : readyState[c] = 2 /\ ClientIsClosed(c)

\* the endpoint is closed as its isClosed() reports it
EndpointClosed(e) == IF e = "server" THEN isClosed ELSE ClientIsClosed(e)

\* C21: close() is idempotent on both endpoints: every close() call, the
\* first and any later one, completes without error and leaves the endpoint
\* closed, and after close() on a server that wraps a listener that
\* listener is closed as well.
C21_CloseIdempotent ==
  /\ \A e \in Endpoints :
        /\ \A i \in DOMAIN closes[e] : closes[e][i].outcome.st = "resolved"
        /\ closes[e] # <<>> => EndpointClosed(e)
  /\ closes["server"] # <<>> => inner # "listening"

\* C21, the part that holds: close() on a client, and on a server that wraps
\* no listener, completes without error however often it is called, the
\* endpoint is closed afterwards, and the first close() on a server closes
\* the listener it wraps.
C21_IdempotentWithoutListener ==
  /\ \A e \in Endpoints :
        /\ \A i \in DOMAIN closes[e] :
              (e \in Clients \/ inner = "none" \/ i = 1)
                => closes[e][i].outcome.st = "resolved"
        /\ closes[e] # <<>> => EndpointClosed(e)
  /\ closes["server"] # <<>> => inner # "listening"

\* C22: a probe resolves as soon as every peer still connected has answered:
\* a peer that disconnected while the probe was waiting does not keep it
\* pending, so no probe is pending once a peer has answered and every peer
\* it still waits for is gone (the server itself being open).
C22_DisconnectedPeerExcluded ==
  \A i \in DOMAIN pings :
    (/\ ~isClosed
     /\ pings[i].outcome.st = "pending"
     /\ pings[i].waitingFor # pings[i].peers)
      => \E s \in pings[i].waitingFor : s \in activeConnections

\* C22, the part that holds: a probe resolves only when its wait set is
\* empty, and it rejects only with the Timeout error of its own timer.
C22_ResolvesOnLastPong ==
  \A i \in DOMAIN pings :
    /\ pings[i].outcome.st = "resolved" => pings[i].waitingFor = {}
    /\ pings[i].outcome.st = "rejected"
         => /\ pings[i].outcome = Rejected(PingTimeoutError(pings[i].ms))
            /\ pings[i].timer = "fired"

\* C23: a ping never reports success about a peer that is gone: a
\* client.ping issued after the server's close() does not resolve, and a
\* server.ping started when every client has closed does not resolve.
C23_NoSuccessForGonePeer ==
  /\ \A k \in ClientCalls :
        (/\ calls[k].fn = "ping"
         /\ closes["server"] # <<>>
         /\ k > closes["server"][1].after)
          => calls[k].outcome.st # "resolved"
  /\ \A i \in DOMAIN pings :
        pings[i].closed = Clients => pings[i].outcome.st # "resolved"

\* C23, the part that holds: a client.ping issued after the server's close()
\* does not resolve.
C23_ClientPingAfterServerClose ==
  \A k \in ClientCalls :
    (/\ calls[k].fn = "ping"
     /\ closes["server"] # <<>>
     /\ k > closes["server"][1].after)
      => calls[k].outcome.st # "resolved"

\* C24: a request whose function name is ping is answered at once with a
\* response that carries the name and the request's mid and nothing else,
\* on the socket it came from; no handler is started and no validator is
\* consulted for it, although a handler and a validator named ping are
\* registered.
C24_PingAnsweredAtOnce ==
  \A i \in DOMAIN requests :
    requests[i].mt = "ping" =>
      /\ requests[i].st = "done"
      /\ Len(requests[i].sent) = 1
      /\ requests[i].sent[1].to = requests[i].sock
      /\ requests[i].sent[1].env = [mt |-> "ping", mid |-> requests[i].mid]

\* C24 witness: a validating server has answered a ping request whose
\* payload the validator registered for ping refuses.
C24_Witness ==
  /\ serverValidate
  /\ "ping" \in Handlers \cap functionValidation
  /\ \E i \in DOMAIN requests :
       /\ requests[i].mt = "ping"
       /\ ValidatorRefuses(requests[i].data)
       /\ requests[i].sent # <<>>
       /\ requests[i].sent[1].env = [mt |-> "ping", mid |-> requests[i].mid]

\* the message listener of client c, and the server's listener of c's
\* socket, deserializes and classifies the next message in this step
ClientReads(c) ==
  /\ toClient[c] # <<>>
  /\ Head(toClient[c]) # PingFrame
  /\ toClient'[c] = Tail(toClient[c])
  /\ readyState' = readyState
ServerReads(c) ==
  /\ toServer[c] # <<>>
  /\ Head(toServer[c]) # PongFrame
  /\ toServer'[c] = Tail(toServer[c])
  /\ activeConnections' = activeConnections
\* the markers an object carries
Has(parsed, marker) == IsObject(parsed) /\ marker \in DOMAIN parsed

\* what the client does with an error envelope, with a response and with an
\* event, and what it leaves alone in each case
ClientTakesAsError(c, parsed) ==
  /\ waitingForResponse'[c] = Delete(waitingForResponse[c], MidOf(parsed))
  /\ \A k \in DOMAIN calls :
        (MidOf(parsed) \in DOMAIN waitingForResponse[c]
           /\ waitingForResponse[c][MidOf(parsed)] = k /\ calls[k].pc = "racing")
          => calls'[k].outcome = Rejected(ResponseError(parsed))
  /\ log' = log
ClientTakesAsResponse(c, parsed) ==
  /\ waitingForResponse'[c] = Delete(waitingForResponse[c], MidOf(parsed))
  /\ log' = log
ClientTakesAsEvent(c, parsed) ==
  /\ log'[c].last.op = "dispatch" /\ log'[c].last.name = parsed.ev
  /\ UNCHANGED <<waitingForResponse, calls>>
\* the same for the server: an error envelope is only logged, a function
\* message becomes a request, an event is dispatched
ServerTakesAsError == UNCHANGED <<requests, log, toClient>>
ServerTakesAsFunction(parsed) ==
  /\ Len(requests') = Len(requests) + 1
  /\ requests'[Len(requests')].mt = parsed.mt
  /\ log' = log
ServerTakesAsEvent(parsed) ==
  /\ log'["server"].last.op = "dispatch" /\ log'["server"].last.name = parsed.ev
  /\ UNCHANGED <<requests, toClient>>

\* C25: client and server classify an inbound object in the same order, an
\* error envelope before a function message before an event, and handle an
\* object with several markers only as the first of these it is.
C25_SamePriorityOrder ==
  /\ [][\A c \in Clients :
          ClientReads(c) =>
            LET parsed == deserialize(Head(toClient[c]))
            IN /\ Has(parsed, "err") => ClientTakesAsError(c, parsed)
               /\ (~Has(parsed, "err") /\ Has(parsed, "mt"))
                    => ClientTakesAsResponse(c, parsed)
               /\ (~Has(parsed, "err") /\ ~Has(parsed, "mt") /\ Has(parsed, "ev"))
                    => ClientTakesAsEvent(c, parsed)]_vars
  /\ [][\A c \in Clients :
          ServerReads(c) =>
            LET parsed == deserialize(Head(toServer[c]))
            IN /\ Has(parsed, "err") => ServerTakesAsError
               /\ (~Has(parsed, "err") /\ Has(parsed, "mt"))
                    => ServerTakesAsFunction(parsed)
               /\ (~Has(parsed, "err") /\ ~Has(parsed, "mt") /\ Has(parsed, "ev"))
                    => ServerTakesAsEvent(parsed)]_vars

\* C25, what the code does: the client classifies in the order error,
\* function, event; the server in the order error, event, function.
C25_OrderOfEachReceiver ==
  /\ [][\A c \in Clients :
          ClientReads(c) =>
            LET parsed == deserialize(Head(toClient[c]))
            IN /\ Has(parsed, "err") => ClientTakesAsError(c, parsed)
               /\ (~Has(parsed, "err") /\ Has(parsed, "mt"))
                    => ClientTakesAsResponse(c, parsed)
               /\ (~Has(parsed, "err") /\ ~Has(parsed, "mt") /\ Has(parsed, "ev"))
                    => ClientTakesAsEvent(c, parsed)]_vars
  /\ [][\A c \in Clients :
          ServerReads(c) =>
            LET parsed == deserialize(Head(toServer[c]))
            IN /\ Has(parsed, "err") => ServerTakesAsError
               /\ (~Has(parsed, "err") /\ Has(parsed, "ev"))
                    => ServerTakesAsEvent(parsed)
               /\ (~Has(parsed, "err") /\ ~Has(parsed, "ev") /\ Has(parsed, "mt"))
                    => ServerTakesAsFunction(parsed)]_vars

\* an inbound value no receiver classifies: not an object, or an object
\* with none of the markers
Unclassified(parsed) ==
  ~IsObject(parsed) \/ DOMAIN parsed \cap {"err", "mt", "ev"} = {}

\* C26: a message that decodes to a non-object, or to an object with none of
\* the markers err, mt and ev, is ignored by client and server: no handler
\* runs, no pending call is settled or removed, no subscription changes and
\* nothing is sent back.
C26_UnclassifiedIgnored ==
  /\ [][\A c \in Clients :
          (ClientReads(c) /\ Unclassified(deserialize(Head(toClient[c]))))
            => UNCHANGED <<calls, waitingForResponse, eventHandlers, marked, log,
                           unhandled, requests, pings, toServer, readyState,
                           activeConnections, closes>>]_vars
  /\ [][\A c \in Clients :
          (ServerReads(c) /\ Unclassified(deserialize(Head(toServer[c]))))
            => UNCHANGED <<calls, waitingForResponse, eventHandlers, marked, log,
                           unhandled, requests, pings, toClient, readyState,
                           activeConnections, closes>>]_vars

\* C26 witness: a client whose first call is pending has consumed an object
\* with the call's id and no marker, and a value that is not an object; the
\* call is still pending and still waits for its response.
C26_Witness ==
  \E c \in Clients :
    /\ Len(crafted) = 2
    /\ crafted[1] = [to |-> "client", of |-> c, env |-> [mid |-> CraftedMid, data |-> "ok"]]
    /\ crafted[2] = [to |-> "client", of |-> c, env |-> NonObject("text")]
    /\ toClient[c] = <<>>
    /\ Len(calls) >= 1
    /\ calls[1].who = c /\ calls[1].mid = CraftedMid
    /\ calls[1].outcome.st = "pending"
    /\ CraftedMid \in DOMAIN waitingForResponse[c]

\* C27: after any number of open events of a client's transport exactly one
\* message listener is bound to it, so no inbound message is handed to a
\* second listener: each is processed once.
C27_OneMessageListener ==
  \A c \in Clients : listeners[c].bound = 1 /\ listeners[c].ran = 0

\* C27 witness: a transport has dropped and re-opened, and a call issued over
\* the new connection has been resolved by its response.
C27_Witness ==
  \E k \in ClientCalls :
    /\ epoch[calls[k].who] >= 1
    /\ readyState[calls[k].who] = 1
    /\ calls[k].outcome.st = "resolved"
    /\ \E i \in DOMAIN requests :
         requests[i].sock = <<calls[k].who, epoch[calls[k].who]>> /\ requests[i].mid = calls[k].mid

\* the loop of server.sendEvent call k runs in this step
Broadcasting(k) ==
  /\ calls[k].who = "server" /\ calls[k].op = "event"
  /\ calls[k].pc = "serialize" /\ calls'[k].pc = "done"
\* the message of sendEvent call k
EventMessage(k) == serialize([ev |-> calls[k].fn, data |-> calls[k].data])

\* C28: the loop of server.sendEvent hands the event to every peer that is
\* connected when it runs and whose send does not fail, whichever sends fail,
\* and sendEvent resolves.
C28_BestEffortBroadcast ==
  [][\A k \in DOMAIN calls :
       Broadcasting(k) =>
         /\ calls'[k].outcome = Resolved(Undefined)
         /\ \A c \in Clients :
              (Sock(c) \in activeConnections \ calls'[k].failed /\ readyState[c] = 1)
                => toClient'[c] = Append(toClient[c], EventMessage(k))]_vars

\* C28 witness: a sendEvent has resolved although the send to one connected
\* peer failed, and its event is on the way to another peer.
C28_Witness ==
  \E k \in DOMAIN calls, c \in Clients :
    /\ calls[k].who = "server" /\ calls[k].op = "event"
    /\ calls[k].outcome = Resolved(Undefined)
    /\ calls[k].failed # {}
    /\ calls[k].failed \subseteq activeConnections
    /\ Sock(c) \in activeConnections \ calls[k].failed
    /\ toClient[c] # <<>>
    /\ toClient[c][Len(toClient[c])] = EventMessage(k)

\* the events whose listeners setupConnectionEventHandling adds
LifecycleEvents == {"close", "error"}

\* C29: on every close event each callback registered with onClose, and on
\* every error event each callback registered with onError, is invoked once.
C29_EveryCallbackNotified ==
  \A e \in Endpoints, event \in LifecycleEvents :
    lifecycle[e][event].ran = lifecycle[e][event].before

\* C29, what the code does: the callbacks registered when the event came are
\* invoked in order of registration, once each, up to the first one that
\* throws; cancelled callbacks are not among them; error callbacks get the
\* normalized error; an error with no callback leaves no exception behind.
C29_NotifiedUntilFirstThrow ==
  /\ [](\A e \in Endpoints, event \in LifecycleEvents :
        LET n == lifecycle[e][event]
        IN
          /\ Len(n.ran) <= Len(n.before)
          /\ n.ran = SubSeq(n.before, 1, Len(n.ran))
          /\ \A i, j \in DOMAIN n.ran : n.ran[i] = n.ran[j] => i = j
          /\ \A i \in DOMAIN n.ran : CallbackThrows(n.ran[i]) => i = Len(n.ran)
          /\ n.threw <=> \E i \in DOMAIN n.before : CallbackThrows(n.before[i])
          /\ ~n.threw => n.ran = n.before)
  /\ [](\A e \in Endpoints :
          lifecycle[e].error.before # <<>>
            => lifecycle[e].error.with
                 \in {normalizeError(error) : error \in TransportErrors} \cup {ConnectError})
  /\ [][\A e \in Endpoints :
          /\ lifecycle'[e].close # lifecycle[e].close
               => lifecycle'[e].close.before = lifecycle[e].onClose
          /\ lifecycle'[e].error # lifecycle[e].error
               => lifecycle'[e].error.before = lifecycle[e].onError
          /\ (lifecycle[e].onError = <<>> /\ <<e, "error">> \in unhandled')
               => <<e, "error">> \in unhandled]_vars

\* the call made in this step: func or event, with a name and a validator
BuilderCalls(op) ==
  /\ builder' # builder
  /\ builder'.last.op = op
  /\ builder'.last.name # NoArgumentGiven
  /\ builder'.last.validation # NoArgumentGiven

\* C30: func (event) with a name that already has a function (event)
\* validator in the builder throws a BuildError and leaves the builder's
\* validators as they were; a name with a validator of one kind can still
\* be given one of the other kind.
C30_DuplicateRefused ==
  /\ [][(BuilderCalls("func") /\ builder'.last.name \in DOMAIN builder.functionValidation)
          => /\ builder'.last.threw = BuildError
             /\ builder'.functionValidation = builder.functionValidation
             /\ builder'.eventValidation = builder.eventValidation]_vars
  /\ [][(BuilderCalls("event") /\ builder'.last.name \in DOMAIN builder.eventValidation)
          => /\ builder'.last.threw = BuildError
             /\ builder'.functionValidation = builder.functionValidation
             /\ builder'.eventValidation = builder.eventValidation]_vars
  /\ [][(BuilderCalls("event") /\ builder'.last.name \notin ObjectPrototype
            /\ builder'.last.name \notin DOMAIN builder.eventValidation)
          => /\ builder'.last.threw = 0
             /\ builder'.last.name \in DOMAIN builder'.eventValidation
             /\ builder'.functionValidation = builder.functionValidation]_vars
  /\ [][(BuilderCalls("func") /\ builder'.last.name \notin ObjectPrototype
            /\ builder'.last.name \notin DOMAIN builder.functionValidation)
          => /\ builder'.last.threw = 0
             /\ builder'.last.name \in DOMAIN builder'.functionValidation
             /\ builder'.eventValidation = builder.eventValidation]_vars

\* C30 witness: a name has a function validator and an event validator, and
\* a func call giving it another function validator has just been refused
\* with a BuildError, the first validator still in place.
C30_Witness ==
  \E name \in BuilderNames :
    /\ name \in DOMAIN builder.functionValidation
    /\ name \in DOMAIN builder.eventValidation
    /\ builder.last.op = "func" /\ builder.last.name = name
    /\ builder.last.threw = BuildError
    /\ builder.last.validation \in Validators \ {builder.functionValidation[name]}

\* self-call k ran a handler that returns
SelfHandled(k) ==
  /\ calls[k].fn \in Handlers
  /\ HandlerKind(calls[k].fn) = "returns"
  /\ ~(serverValidate /\ calls[k].fn \in functionValidation /\ ValidatorRefuses(calls[k].data))
\* self-call k is issued in this step, or its handler or timer settles
SelfCallMoves(k) ==
  /\ calls'[k].op = "call" /\ calls'[k].who = "server"
  /\ k \in DOMAIN calls
       => calls'[k].outcome # calls[k].outcome \/ calls'[k].inner # calls[k].inner

\* C31: a server calling its own registered function sends nothing on any
\* transport and receives no request; the call rejects with the Timeout
\* error when timeoutMS is shorter than the handler's duration and resolves
\* with the handler's result when it is longer.
C31_SelfCallDirectAndTimed ==
  /\ [](\A k \in SelfCalls :
          (calls[k].pc = "done" /\ SelfHandled(k)) =>
            /\ calls[k].ms < HandlerDuration(calls[k].fn) => TimedOut(k)
            /\ calls[k].ms > HandlerDuration(calls[k].fn)
                 => calls[k].outcome = Resolved(HandlerValue(calls[k].fn, calls[k].data)))
  /\ [](\A k \in SelfCalls :
          (SelfHandled(k) /\ calls[k].outcome.st = "pending") => calls[k].timer = "armed")
  /\ [][\A k \in DOMAIN calls' :
          SelfCallMoves(k) => UNCHANGED <<toServer, toClient, requests, waitingForResponse>>]_vars

\* C31 witness: one self-call of the slow handler timed out and another,
\* with a longer timeout, resolved with the handler's result, while nothing
\* was in flight or received.
C31_Witness ==
  /\ \E k \in SelfCalls :
       calls[k].fn = "slow" /\ calls[k].ms < SlowDuration /\ TimedOut(k)
  /\ \E k \in SelfCalls :
       /\ calls[k].fn = "slow" /\ calls[k].ms > SlowDuration
       /\ calls[k].outcome = Resolved(HandlerValue("slow", calls[k].data))
  /\ requests = <<>>
  /\ \A c \in Clients : toServer[c] = <<>> /\ toClient[c] = <<>>

\* C32: no armed timer belongs to a call that has settled, and a timer that
\* was cancelled stays cancelled: it never fires and the outcome of its call
\* never changes.
C32_SettledCallsHaveNoTimer ==
  /\ [](\A k \in DOMAIN calls : Settled(k) => calls[k].timer # "armed")
  /\ [][\A k \in DOMAIN calls :
          calls[k].timer = "cleared"
            => calls'[k].timer = "cleared" /\ calls'[k].outcome = calls[k].outcome]_vars

\* C32 witness: a client call resolved by its response and another rejected
\* by an error envelope, each before its timeout and with its timer cancelled.
C32_Witness ==
  \E k1, k2 \in ClientCalls :
    /\ calls[k1].outcome.st = "resolved" /\ calls[k1].timer = "cleared"
    /\ calls[k2].outcome.st = "rejected" /\ calls[k2].timer = "cleared"
    /\ calls[k2].outcome.val.message = NoHandlerError(calls[k2].fn)

\* call k is pending and was issued before a close() of its connection or
\* of the server: it was outstanding when that close() was called
PendingAtClose(k) ==
  /\ calls[k].outcome.st = "pending"
  /\ \E e \in {calls[k].who, "server"} :
       \E i \in DOMAIN closes[e] : closes[e][i].after >= k

RefusedByValidator(i) ==
  /\ serverValidate
  /\ requests[i].mt \in functionValidation
  /\ ValidatorRefuses(requests[i].data)
\* the server answered request i with one error envelope, on the request's
\* socket, that carries the request's mid and the validator error's message
\* and code, and started no handler for it
AnsweredWithValidationError(i) ==
  /\ requests[i].st = "done"
  /\ Len(requests[i].sent) = 1
  /\ requests[i].sent[1].to = requests[i].sock
  /\ requests[i].sent[1].env = [mid |-> requests[i].mid, err |-> TRUE,
                                message |-> ValidationError.message,
                                code |-> ValidationError.code]

\* C34: on a validating server, every function request whose payload the
\* validator registered for that function refuses is answered with one error
\* envelope carrying the request's callID and the validator error's message
\* and code, and its handler is not invoked.
C34_RefusedPayloadAnswered ==
  \A i \in DOMAIN requests : RefusedByValidator(i) => AnsweredWithValidationError(i)

\* C34, what the code does: the same for every function but the reserved
\* name ping, whose request is answered with the ping response before any
\* validator is looked up.
C34_RefusedPayloadAnsweredUnlessPing ==
  \A i \in DOMAIN requests :
    RefusedByValidator(i) =>
      IF requests[i].mt = "ping"
        THEN requests[i].sent[1].env = [mt |-> "ping", mid |-> requests[i].mid]
        ELSE AnsweredWithValidationError(i)

\* C34 witness: a validating server has refused the payload of a request
\* for a function that is not ping and has sent the error envelope.
C34_Witness ==
  \E i \in DOMAIN requests :
    /\ RefusedByValidator(i)
    /\ requests[i].mt # "ping"
    /\ requests[i].mt \in Handlers
    /\ AnsweredWithValidationError(i)

\* the error the claim expects from an error envelope: its message, its
\* code, or ErrorType.Response when it carries none, and its data
ExpectedError(parsed) ==
  Error(parsed.message,
        IF "code" \in DOMAIN parsed THEN parsed.code ELSE Response,
        DataOf(parsed))
\* client c handles in this step an error envelope whose mid is in its table
TakesErrorFor(c, k) ==
  /\ ClientReads(c)
  /\ IsObject(deserialize(Head(toClient[c])))
  /\ "err" \in DOMAIN deserialize(Head(toClient[c]))
  /\ MidOf(deserialize(Head(toClient[c]))) \in DOMAIN waitingForResponse[c]
  /\ waitingForResponse[c][MidOf(deserialize(Head(toClient[c])))] = k
  /\ calls[k].inner.st = "pending"

\* C35: an inbound error envelope with a known callID rejects the pending
\* call with an error whose message, code and data are those of the
\* envelope, the code being ErrorType.Response when the envelope has none.
C35_ErrorEnvelopeRejects ==
  [][\A c \in Clients : \A k \in DOMAIN calls :
       TakesErrorFor(c, k)
         => calls'[k].inner = Rejected(ExpectedError(deserialize(Head(toClient[c]))))]_vars

\* C36: a client call whose send fails rejects and leaves no entry for its
\* callID in the pending-call table: in every reachable state each entry of
\* a client's table belongs to a call that has not settled yet.
C36_EntriesOfUnsettledCalls ==
  /\ [][\A k \in ClientCalls :
          (calls[k].pc = "serialize" /\ calls'[k].outcome = Rejected(SendError))
            => calls[k].mid \notin DOMAIN waitingForResponse'[calls[k].who]]_vars
  /\ [](\A c \in Clients : \A mid \in DOMAIN waitingForResponse[c] :
          ~Settled(waitingForResponse[c][mid]))

\* the call or sendEvent k of a client reaches conn.send in this step
InvokesSend(k) ==
  /\ k \in DOMAIN calls
  /\ calls[k].who \in Clients
  /\ calls[k].pc = "serialize"
  /\ calls'[k].pc # "serialize"

\* C37: a client never invokes the transport's send while the transport is
\* not open, whatever the interleaving of a call or sendEvent with a close
\* of the transport, a close during serialization included.
C37_SendsOnlyWhenOpen ==
  [][\A k \in 1..MaxCalls : InvokesSend(k) => readyState[calls[k].who] = 1]_vars

\* C38: once a server ping probe has settled, by the last pong or by its
\* timeout, its listener is no longer in incomingPongListeners: the set
\* holds only the listeners of probes still in flight.
C38_OnlyListenersOfProbesInFlight ==
  \A i \in DOMAIN pings : pings[i].listening => pings[i].outcome.st = "pending"

\* the number of times cb occurs in a sequence of callbacks
Occurrences(seq, cb) == Cardinality({i \in DOMAIN seq : seq[i] = cb})
\* the subscription call or dispatch run that endpoint e has just made
JustLogged(e) == log'[e] # log[e]

\* C39: a (name, callback) pair is subscribed at most once: on or once with
\* a callback already subscribed for the name adds no second subscription,
\* the callback is invoked once per received event, and one off(name, cb)
\* removes it completely.
C39_SubscribedAtMostOnce ==
  /\ [](\A e \in Endpoints : \A name \in EventNames : \A cb \in Callbacks :
          Occurrences(eventHandlers[e][name], cb) <= 1)
  /\ [][\A e \in Endpoints :
          (JustLogged(e) /\ log'[e].last.op \in {"on", "once"}
             /\ log'[e].last.cb \in Range(log'[e].last.before))
            => eventHandlers'[e][log'[e].last.name] = log'[e].last.before]_vars
  /\ [][\A e \in Endpoints :
          (JustLogged(e) /\ log'[e].last.op = "dispatch" /\ ~log'[e].last.threw)
            => \A cb \in Callbacks :
                 Occurrences(log'[e].last.ran, cb)
                   = IF cb \in Range(eventHandlers[e][log'[e].last.name]) THEN 1 ELSE 0]_vars
  /\ [][\A e \in Endpoints :
          (JustLogged(e) /\ log'[e].last.op = "offcb")
            => log'[e].last.cb \notin Range(eventHandlers'[e][log'[e].last.name])]_vars

\* C39 witness: a callback already subscribed for a name has been registered
\* for it again, and the name still has that one subscription.
C39_Witness ==
  \E e \in Endpoints :
    /\ log[e].last.op \in {"on", "once"}
    /\ log[e].last.cb \in Range(log[e].last.before)
    /\ Occurrences(eventHandlers[e][log[e].last.name], log[e].last.cb) = 1

\* the sockets in activeConnections that belong to peer c
SocketsOf(c) == {s \in activeConnections : s[1] = c}
\* activeConnections agrees with the state of peer c: its current socket is
\* in the set while it is open, no socket of c is in the set while it is
\* connecting or closed or after the server's sockets were closed, and a
\* socket of an earlier connection of c is never in it
AgreesWith(c) ==
  /\ SocketsOf(c) \subseteq {Sock(c)}
  /\ (readyState[c] = 1 /\ ~isClosed) => Sock(c) \in activeConnections
  /\ (readyState[c] \in {0, 3} \/ isClosed) => SocketsOf(c) = {}
\* the server's sendEvent or ping sends its messages in this step
ServerAddresses ==
  \/ Len(pings') > Len(pings)
  \/ \E k \in DOMAIN calls :
       /\ calls[k].who = "server" /\ calls[k].op = "event"
       /\ calls[k].pc = "serialize" /\ calls'[k].pc = "done"

====
